---- MODULE Spec2Model ----
(***************************************************************************)
(* Smart Financial Coach backend (src/backend/server.py).                  *)
(*                                                                         *)
(* The state is the external row store (the transactions table and the     *)
(* financial_goals table) and the response of the last request.  Every     *)
(* HTTP handler is one action.  Floating-point numbers are modelled as     *)
(* exact rationals <<numerator, denominator>> with a positive denominator, *)
(* so "within floating-point tolerance" is exact equality here.            *)
(***************************************************************************)
EXTENDS Integers, Sequences, FiniteSets, TLC

VARIABLES txns,   \* rows of the store's 'transactions' table, in insertion order
          goals,  \* rows of the store's 'financial_goals' table
          resp    \* the response of the last request

vars == <<txns, goals, resp>>

----------------------------------------------------------------------------
(* Python values *)

NULL == "<null>"      \* None / JSON null
ABSENT == "<absent>"  \* the key is not in the dict

\* dict.get(key): an absent key reads as None
Get(v) == IF v = ABSENT THEN NULL ELSE v

\* dict.get(key, default)
GetDefault(v, d) == IF v = ABSENT THEN d ELSE v

\* truthiness of an optional string: None and "" are falsy
Truthy(v) == v # NULL /\ v # ABSENT /\ v # ""

----------------------------------------------------------------------------
(* Exact rationals for the float arithmetic *)

Rat(n, d) == <<n, d>>
RatOfInt(n) == <<n, 1>>
RatLeq(a, b) == a[1] * b[2] <= b[1] * a[2]
RatLt(a, b) == a[1] * b[2] < b[1] * a[2]
RatEq(a, b) == a[1] * b[2] = b[1] * a[2]
RatMul(a, b) == <<a[1] * b[1], a[2] * b[2]>>
RatSub(a, b) == <<a[1] * b[2] - b[1] * a[2], a[2] * b[2]>>
\* a / b for b > 0
RatDiv(a, b) == <<a[1] * b[2], a[2] * b[1]>>
RatMax0(a) == IF a[1] < 0 THEN <<0, 1>> ELSE a

RECURSIVE SumSeq(_)
SumSeq(s) == IF s = <<>> THEN 0 ELSE Head(s) + SumSeq(Tail(s))

RECURSIVE BoundedSeq(_, _)
BoundedSeq(S, n) ==
  IF n = 0 THEN {<<>>}
  ELSE LET shorter == BoundedSeq(S, n - 1)
       IN shorter \cup {Append(s, x) : s \in {t \in shorter : Len(t) = n - 1}, x \in S}

----------------------------------------------------------------------------
(* Stored values *)

\* A stored amount: a number, a non-numeric string, null, or no key at all.
\* Amounts are whole currency units.
Num(v) == [t |-> "num", v |-> v]
AmtText == [t |-> "text", v |-> 0]
AmtNull == [t |-> "null", v |-> 0]
AmtAbsent == [t |-> "absent", v |-> 0]

\* float(transaction.get('amount', 0)) raises on None and on a non-numeric string
FloatRaises(a) == a.t \in {"null", "text"}
FloatOf(a) == IF a.t = "num" THEN a.v ELSE 0

\* A stored timestamp.  form: "tz" an ISO date-time string with a UTC offset,
\* "naive" one without an offset, "date" a calendar date string, "garbage" an
\* unparseable string, "null", "absent".  age: whole days before the request.
Time(form, age) == [form |-> form, age |-> age]
TimeNull == [form |-> "null", age |-> 0]
TimeAbsent == [form |-> "absent", age |-> 0]
TimeTruthy(t) == t.form \notin {"null", "absent"}

\* str.lower() on the strings the model stores
Lower(s) ==
  CASE s = "Dining Out" -> "dining out"
    [] s = "Starbucks" -> "starbucks"
    [] s = "Netflix" -> "netflix"
    [] s = "Gas & Food Mart" -> "gas & food mart"
    [] s = "Uber" -> "uber"
    [] s = "Rent" -> "rent"
    [] OTHER -> s

\* The keywords of the category normaliser that occur in a lower-cased string
KeywordsIn(l) ==
  CASE l = "food" -> {"food"}
    [] l = "coffee" -> {"coffee"}
    [] l = "dining out" -> {"dining"}
    [] l = "starbucks" -> {"starbucks"}
    [] l = "netflix" -> {"netflix"}
    [] l = "entertainment" -> {"entertainment"}
    [] l = "transportation" -> {"transportation"}
    [] l = "shopping" -> {"shopping"}
    [] l = "gas & food mart" -> {"gas", "food"}
    [] l = "uber" -> {"uber"}
    [] OTHER -> {}

\* 'kw' in s.lower()
Contains(s, kw) == kw \in KeywordsIn(Lower(s))

ExpenseTypes == {"debit", "payment", "withdrawal"}
IncomeTypes == {"credit", "deposit"}

----------------------------------------------------------------------------
(* generate_insights_from_raw_data *)

\* transaction.get('transaction_type', 'debit')
RawType(r) == GetDefault(r.transaction_type, "debit")

\* the row passes the filter "expense type and amount > 0"
Processed(r) == RawType(r) \in ExpenseTypes /\ FloatOf(r.amount) > 0

\* transaction.get('merchant', 'other').lower() raises on a null merchant; the
\* or-chain reaches it only when ai_category and category are both falsy
CategoryRaises(r) ==
  /\ ~Truthy(r.ai_category)
  /\ ~Truthy(r.category)
  /\ r.merchant = NULL

ResolveCategory(r) ==
  IF Truthy(r.ai_category) THEN r.ai_category
  ELSE IF Truthy(r.category) THEN r.category
  ELSE IF Truthy(GetDefault(r.merchant, "other")) THEN Lower(GetDefault(r.merchant, "other"))
  ELSE "other"

NormalizeCategory(c) ==
  IF Contains(c, "starbucks") \/ Contains(c, "coffee") THEN "coffee"
  ELSE IF Contains(c, "food") \/ Contains(c, "restaurant") \/ Contains(c, "dining") THEN "food"
  ELSE IF Contains(c, "entertainment") \/ Contains(c, "netflix") \/ Contains(c, "streaming")
    THEN "entertainment"
  ELSE IF Contains(c, "transportation") \/ Contains(c, "uber") \/ Contains(c, "gas")
    THEN "transportation"
  ELSE IF Contains(c, "shopping") \/ Contains(c, "amazon") \/ Contains(c, "target")
    THEN "shopping"
  ELSE c

RawCategory(r) == NormalizeCategory(ResolveCategory(r))

\* the loop raises at the first row whose amount or category cannot be read
RECURSIVE RawRaises(_)
RawRaises(rows) ==
  IF rows = <<>> THEN FALSE
  ELSE LET r == Head(rows)
       IN \/ FloatRaises(r.amount)
          \/ (Processed(r) /\ CategoryRaises(r))
          \/ RawRaises(Tail(rows))

\* the keys of category_spending, in insertion order
RECURSIVE CategoryKeys(_, _)
CategoryKeys(rows, seen) ==
  IF rows = <<>> THEN <<>>
  ELSE LET r == Head(rows)
       IN IF Processed(r) /\ RawCategory(r) \notin seen
          THEN <<RawCategory(r)>> \o CategoryKeys(Tail(rows), seen \cup {RawCategory(r)})
          ELSE CategoryKeys(Tail(rows), seen)

\* category_spending[category]
RECURSIVE CategoryAmounts(_, _)
CategoryAmounts(rows, cat) ==
  IF rows = <<>> THEN <<>>
  ELSE LET r == Head(rows)
       IN IF Processed(r) /\ RawCategory(r) = cat
          THEN <<FloatOf(r.amount)>> \o CategoryAmounts(Tail(rows), cat)
          ELSE CategoryAmounts(Tail(rows), cat)

LastThree_FromFourth(amounts) ==
  IF Len(amounts) > 3 THEN SubSeq(amounts, Len(amounts) - 3, Len(amounts)) ELSE amounts

\* amounts[-3:], used once there are at least 3 amounts
LastThree(amounts) == SubSeq(amounts, Len(amounts) - 2, Len(amounts))

AvgTransaction_Floor(total, count) == Rat(total \div count, 1)

\* total_amount / len(amounts)
AvgTransaction(total, count) == Rat(total, count)

\* 1.2 and 0.8
TrendUp == Rat(6, 5)
TrendDown == Rat(4, 5)

Trend_NonStrict(amounts, avg_transaction) ==
  IF Len(amounts) >= 3
  THEN LET recent_avg == Rat(SumSeq(LastThree(amounts)), 3)
       IN IF RatLeq(RatMul(avg_transaction, TrendUp), recent_avg) THEN "increasing"
          ELSE IF RatLeq(recent_avg, RatMul(avg_transaction, TrendDown)) THEN "decreasing"
          ELSE "stable"
  ELSE "stable"

\* the trend of one category's amounts, given avg_transaction
Trend(amounts, avg_transaction) ==
  IF Len(amounts) >= 3
  THEN LET recent_avg == Rat(SumSeq(LastThree(amounts)), 3)
       IN IF RatLt(RatMul(avg_transaction, TrendUp), recent_avg) THEN "increasing"
          ELSE IF RatLt(recent_avg, RatMul(avg_transaction, TrendDown)) THEN "decreasing"
          ELSE "stable"
  ELSE "stable"

\* the recommendation text, by its template (the numbers in it are left out)
RawRecommendation(category) ==
  IF category \in {"coffee", "food", "entertainment", "transportation", "shopping"}
  THEN "template:" \o category
  ELSE "template:review"

RawInsight(user_id, cat, amounts) ==
  [user_id |-> user_id,
   category |-> cat,
   total_amount |-> SumSeq(amounts),
   transaction_count |-> Len(amounts),
   avg_transaction |-> AvgTransaction(SumSeq(amounts), Len(amounts)),
   trend |-> Trend(amounts, AvgTransaction(SumSeq(amounts), Len(amounts))),
   ai_recommendation |-> RawRecommendation(cat)]

\* the insights list of generate_insights_from_raw_data (when it does not raise)
InsightsFromRawData(user_id, rows) ==
  LET keys == CategoryKeys(rows, {})
  IN [i \in 1..Len(keys) |-> RawInsight(user_id, keys[i], CategoryAmounts(rows, keys[i]))]

----------------------------------------------------------------------------
(* The store *)

Users == {"u1", "u2"}

\* supabase_admin.table(...).select('*').eq('user_id', user_id).execute().data
RowsOf(table, user_id) == SelectSeq(table, LAMBDA r : r.user_id = user_id)

Row(user_id, amount, ttype, ai_category, category, merchant, processed_at) ==
  [user_id |-> user_id, amount |-> amount, description |-> "Purchase",
   transaction_type |-> ttype, ai_category |-> ai_category, category |-> category,
   merchant |-> merchant, processed_at |-> processed_at,
   created_at |-> processed_at, date |-> TimeAbsent]

Recent == Time("tz", 5)
Old == Time("tz", 45)

\* The rows other writers leave in the transactions table: the store returns
\* loosely-typed records, so every field may be missing, null or ill-typed.
RowShapes ==
  {Row("u1", Num(2), "payment", "food", "food", "Whole Foods", Recent),
   Row("u1", Num(1), "debit", NULL, "Dining Out", ABSENT, Recent),
   Row("u1", Num(2), "withdrawal", NULL, NULL, "Starbucks", Recent),
   Row("u1", Num(3), ABSENT, NULL, NULL, ABSENT, Old),
   Row("u1", Num(3), "credit", NULL, "salary", ABSENT, Recent),
   Row("u1", Num(-1), "payment", "Rent", NULL, ABSENT, Recent),
   Row("u1", Num(1), "payment", NULL, "", NULL, Recent),
   Row("u1", AmtText, "payment", "food", NULL, ABSENT, Recent),
   Row("u2", Num(2), "payment", "Netflix", NULL, ABSENT, Recent)}

\* a row of financial_goals, as create_goal writes it
Goal(id, user_id, target_amount, current_amount) ==
  [id |-> id, user_id |-> user_id, goal_name |-> "Trip",
   target_amount |-> target_amount, current_amount |-> current_amount,
   is_active |-> TRUE]

NoResp == [kind |-> "none"]

----------------------------------------------------------------------------
(* GET /api/users/{user_id}/insights *)

ZeroAvg == RatOfInt(0)

Placeholder(user_id, category, text) ==
  [user_id |-> user_id, category |-> category, total_amount |-> 0,
   transaction_count |-> 0, avg_transaction |-> ZeroAvg, trend |-> "stable",
   ai_recommendation |-> text]

\* the sample insights returned when the user has no rows
NoDataInsights(user_id) ==
  <<Placeholder(user_id, "food", "start tracking your food expenses"),
    Placeholder(user_id, "entertainment", "track your entertainment spending")>>

GeneralInsight_ZeroCount(user_id, data) ==
  [user_id |-> user_id, category |-> "general", total_amount |-> 0,
   transaction_count |-> 0, avg_transaction |-> ZeroAvg, trend |-> "stable",
   ai_recommendation |-> "great job tracking your expenses"]

\* the fallback when rows exist and no insight was generated
GeneralInsight(user_id, data) ==
  [user_id |-> user_id, category |-> "general", total_amount |-> 0,
   transaction_count |-> Len(data), avg_transaction |-> ZeroAvg, trend |-> "stable",
   ai_recommendation |-> "great job tracking your expenses"]

TrackingInsights_Empty(user_id) == <<>>

\* the except branch
TrackingInsights(user_id) ==
  <<Placeholder(user_id, "tracking", "welcome: start adding transactions")>>

AnyIncreasing(insights) == \E i \in 1..Len(insights) : insights[i].trend = "increasing"

InsightsBody(user_id, insights, total, period) ==
  [insights |-> insights, total_transactions |-> total, analysis_period |-> period,
   anomalies_present |-> AnyIncreasing(insights)]

\* the body get_spending_insights returns; store_ok: the store read succeeds
SpendingInsights(user_id, store_ok) ==
  LET data == RowsOf(txns, user_id)
      generated == InsightsFromRawData(user_id, data)
  IN IF ~store_ok THEN InsightsBody(user_id, TrackingInsights(user_id), 0, "getting_started")
     ELSE IF data = <<>>
       THEN [InsightsBody(user_id, NoDataInsights(user_id), 0, "no_data_yet")
               EXCEPT !.anomalies_present = FALSE]
     ELSE IF RawRaises(data)
       THEN InsightsBody(user_id, TrackingInsights(user_id), 0, "getting_started")
     ELSE IF generated = <<>>
       THEN InsightsBody(user_id, <<GeneralInsight(user_id, data)>>, Len(data), "last_30_days")
     ELSE InsightsBody(user_id, generated, Len(data), "last_30_days")

GetInsights(u, store_ok) ==
  /\ resp' = [kind |-> "insights", user_id |-> u, store_ok |-> store_ok, code |-> 200,
              body |-> SpendingInsights(u, store_ok)]
  /\ UNCHANGED <<txns, goals>>

----------------------------------------------------------------------------
(* Goal forecasting *)

\* months_needed: float('inf') or a finite quotient
Inf == [inf |-> TRUE, v |-> RatOfInt(0)]
Finite(q) == [inf |-> FALSE, v |-> q]

\* None if months_needed == float('inf') else months_needed
NoneIfInf(m) == [null |-> m.inf, v |-> m.v]

OnTrackMonths == 6
ModerateMonths == 12

ForecastRemaining_NoClamp(target_amount, current_amount) == target_amount - current_amount

\* FinancialAI.forecast_goal_progress: remaining
ForecastRemaining(target_amount, current_amount) ==
  IF target_amount - current_amount > 0 THEN target_amount - current_amount ELSE 0

ForecastMonths_StrictZero(monthly_savings, remaining) ==
  IF monthly_savings < 0 THEN Inf ELSE Finite(Rat(remaining, monthly_savings))

\* FinancialAI.forecast_goal_progress: months_needed
ForecastMonths(monthly_savings, remaining) ==
  IF monthly_savings <= 0 THEN Inf ELSE Finite(Rat(remaining, monthly_savings))

ForecastStatus_StrictSix(monthly_savings, months_needed) ==
  IF monthly_savings <= 0 THEN "no_savings"
  ELSE IF RatLt(months_needed.v, RatOfInt(OnTrackMonths)) THEN "on_track"
  ELSE IF RatLeq(months_needed.v, RatOfInt(ModerateMonths)) THEN "moderate_track"
  ELSE "off_track"

\* FinancialAI.forecast_goal_progress: status
ForecastStatus(monthly_savings, months_needed) ==
  IF monthly_savings <= 0 THEN "no_savings"
  ELSE IF RatLeq(months_needed.v, RatOfInt(OnTrackMonths)) THEN "on_track"
  ELSE IF RatLeq(months_needed.v, RatOfInt(ModerateMonths)) THEN "moderate_track"
  ELSE "off_track"

\* FinancialAI.forecast_goal_progress: ai_guidance.  ai is what the text
\* collaborator does: "text" it answers, "empty" it answers nothing, "raise"
ForecastGuidance(status, ai) ==
  IF ai = "text" THEN "model text"
  ELSE IF ai = "empty" THEN "unable to generate personalized guidance"
  ELSE IF status = "on_track" THEN "fallback:on_track"
  ELSE IF status = "off_track" THEN "fallback:off_track"
  ELSE IF status = "no_savings" THEN "fallback:no_savings"
  ELSE "fallback:track_your_spending"

\* the dict forecast_goal_progress returns.  monthly_savings is a stored
\* amount: a null one makes the comparison raise, which the except branch
\* answers
ForecastGoalProgressResult(monthly_savings, target_amount, current_amount, ai) ==
  IF FloatRaises(monthly_savings)
  THEN [remaining |-> ForecastRemaining(target_amount, current_amount),
        months_needed |-> NoneIfInf(Inf),
        status |-> "unknown",
        ai_guidance |-> "fallback:track_your_spending"]
  ELSE LET remaining == ForecastRemaining(target_amount, current_amount)
           months_needed == ForecastMonths(monthly_savings.v, remaining)
           status == ForecastStatus(monthly_savings.v, months_needed)
       IN [remaining |-> remaining,
           months_needed |-> NoneIfInf(months_needed),
           status |-> status,
           ai_guidance |-> ForecastGuidance(status, ai)]

ForecastGoalProgress(monthly_savings, target_amount, current_amount, ai) ==
  /\ resp' = [kind |-> "forecast_goal_progress",
              monthly_savings |-> monthly_savings,
              target_amount |-> target_amount,
              current_amount |-> current_amount, ai |-> ai,
              result |-> ForecastGoalProgressResult(monthly_savings, target_amount,
                                                    current_amount, ai)]
  /\ UNCHANGED <<txns, goals>>

----------------------------------------------------------------------------
(* GET /api/users/{user_id}/goal-forecast *)

Window == 30
DefaultIncome == 3000

\* t.get('processed_at') or t.get('created_at') or t.get('date')
DateField(t) ==
  IF TimeTruthy(t.processed_at) THEN t.processed_at
  ELSE IF TimeTruthy(t.created_at) THEN t.created_at
  ELSE t.date

\* the row is appended to last_30: its date field parses to a date-time that
\* compares with the aware "now" and is not older than 30 days.  A naive
\* date-time or a calendar date raises in the comparison and an unparseable
\* string in the parse; the bare except skips the row.
InLast30(t) ==
  LET date_field == DateField(t)
  IN /\ TimeTruthy(date_field)
     /\ date_field.form = "tz"
     /\ date_field.age <= Window

\* t.get('transaction_type') in ['debit', 'payment', 'withdrawal']
IsForecastExpense(t) == Get(t.transaction_type) \in ExpenseTypes

RECURSIVE Expenses(_)
Expenses(last_30) ==
  IF last_30 = <<>> THEN 0
  ELSE (IF IsForecastExpense(Head(last_30)) THEN FloatOf(Head(last_30).amount) ELSE 0)
       + Expenses(Tail(last_30))

\* float(t.get('amount', 0)) raises inside the sum
ExpensesRaise(last_30) ==
  \E i \in 1..Len(last_30) : IsForecastExpense(last_30[i]) /\ FloatRaises(last_30[i].amount)

EstimatedIncome_NoMargin(expenses) ==
  IF expenses > 0 THEN RatOfInt(expenses) ELSE RatOfInt(DefaultIncome)

\* expenses * 1.3 if expenses > 0 else 3000
EstimatedIncome(expenses) ==
  IF expenses > 0 THEN RatMul(RatOfInt(expenses), Rat(13, 10)) ELSE RatOfInt(DefaultIncome)

MonthlySavings(expenses) == RatMax0(RatSub(EstimatedIncome(expenses), RatOfInt(expenses)))

GoalRemaining(target_amount, current_amount) ==
  IF target_amount - current_amount > 0 THEN target_amount - current_amount ELSE 0

GoalMonths(monthly_savings, remaining) ==
  IF RatLeq(monthly_savings, RatOfInt(0)) THEN Inf
  ELSE Finite(RatDiv(RatOfInt(remaining), monthly_savings))

GoalStatus_Unknown(monthly_savings, months_needed) ==
  IF RatLeq(monthly_savings, RatOfInt(0)) THEN "no_savings"
  ELSE IF RatLeq(months_needed.v, RatOfInt(OnTrackMonths)) THEN "on_track"
  ELSE IF RatLeq(months_needed.v, RatOfInt(ModerateMonths)) THEN "moderate_track"
  ELSE "unknown"

GoalStatus(monthly_savings, months_needed) ==
  IF RatLeq(monthly_savings, RatOfInt(0)) THEN "no_savings"
  ELSE IF RatLeq(months_needed.v, RatOfInt(OnTrackMonths)) THEN "on_track"
  ELSE IF RatLeq(months_needed.v, RatOfInt(ModerateMonths)) THEN "moderate_track"
  ELSE "off_track"

\* HuggingFaceFinancialAI._fallback_guidance: the text generator is disabled,
\* so generate_goal_guidance always answers with it
FallbackGuidance(status) ==
  IF status = "on_track" THEN "hf:on_track"
  ELSE IF status = "off_track" THEN "hf:off_track"
  ELSE IF status = "no_savings" THEN "hf:no_savings"
  ELSE "hf:track_your_spending"

\* hf_ai.generate_goal_guidance, and the inline template when the call raises
GoalGuidance(status, guidance_ok) ==
  IF guidance_ok THEN FallbackGuidance(status) ELSE "inline:track_your_spending"

GoalForecast(g, monthly_savings, guidance_ok) ==
  LET remaining == GoalRemaining(g.target_amount, g.current_amount)
      months_needed == GoalMonths(monthly_savings, remaining)
      status == GoalStatus(monthly_savings, months_needed)
  IN [goal_id |-> g.id, title |-> g.goal_name,
      target_amount |-> g.target_amount, current_amount |-> g.current_amount,
      remaining |-> remaining, months_needed |-> NoneIfInf(months_needed),
      status |-> status, ai_guidance |-> GoalGuidance(status, guidance_ok)]

\* the forecast of a goal when the user has no transaction rows
NoDataForecast(g) ==
  [goal_id |-> g.id, title |-> g.goal_name,
   target_amount |-> g.target_amount, current_amount |-> g.current_amount,
   progress_percentage |-> 0, estimated_completion_date |-> NULL,
   status |-> "no_data", ai_guidance |-> "no transaction data available"]

ErrorForecast_NoData ==
  [goal_id |-> "fallback", title |-> "Set Your First Goal",
   target_amount |-> 1000, current_amount |-> 0,
   progress_percentage |-> 0, estimated_completion_date |-> NULL,
   status |-> "no_data", ai_guidance |-> "no transaction data available"]

\* the forecast of the outer except branch
ErrorForecast ==
  [goal_id |-> "fallback", title |-> "Set Your First Goal",
   target_amount |-> 1000, current_amount |-> 0,
   progress_percentage |-> 0, estimated_completion_date |-> NULL,
   status |-> "error", ai_guidance |-> "unable to generate forecast"]

\* the body _get_goal_forecast_internal returns.  goals_ok, txns_ok: the
\* read of the goals table, of the transactions table, succeeds;
\* guidance_ok: the guidance call returns
GoalForecastBody(user_id, goals_ok, txns_ok, guidance_ok) ==
  LET goals_data == IF goals_ok THEN RowsOf(goals, user_id) ELSE <<>>
      data == RowsOf(txns, user_id)
      last_30 == SelectSeq(data, InLast30)
      monthly_savings == MonthlySavings(Expenses(last_30))
      failed == [user_id |-> user_id, monthly_savings_estimate |-> RatOfInt(0),
                 forecasts |-> <<ErrorForecast>>, total_goals |-> 1]
  IN IF goals_data = <<>>
     THEN [user_id |-> user_id, monthly_savings_estimate |-> RatOfInt(0),
           forecasts |-> <<>>, total_goals |-> 0, message |-> "no goals found"]
     ELSE IF ~txns_ok THEN failed
     ELSE IF data = <<>>
       THEN [user_id |-> user_id, monthly_savings_estimate |-> RatOfInt(0),
             forecasts |-> [i \in 1..Len(goals_data) |-> NoDataForecast(goals_data[i])],
             total_goals |-> Len(goals_data)]
     ELSE IF ExpensesRaise(last_30) THEN failed
     ELSE [user_id |-> user_id, monthly_savings_estimate |-> monthly_savings,
           forecasts |-> [i \in 1..Len(goals_data) |->
                            GoalForecast(goals_data[i], monthly_savings, guidance_ok)],
           total_goals |-> Len(goals_data)]

GetGoalForecast(u, goals_ok, txns_ok, guidance_ok) ==
  /\ resp' = [kind |-> "goal_forecast", user_id |-> u, goals_ok |-> goals_ok,
              txns_ok |-> txns_ok, guidance_ok |-> guidance_ok, code |-> 200,
              body |-> GoalForecastBody(u, goals_ok, txns_ok, guidance_ok)]
  /\ UNCHANGED <<txns, goals>>

----------------------------------------------------------------------------
(* parse_from_supabase and the Transaction model *)

\* A parsed timestamp has form "datetime_tz" (an aware date-time) or
\* "datetime_naive".  datetime.fromisoformat on a stored string, the current
\* time when it fails: an offset gives an aware date-time, a calendar date a
\* naive one at midnight; a value that is already a date-time is kept.
ParseTime_ReparseAsNow(t) ==
  CASE t.form = "tz" -> Time("datetime_tz", t.age)
    [] t.form \in {"naive", "date"} -> Time("datetime_naive", t.age)
    [] t.form \in {"garbage", "datetime_tz", "datetime_naive"} -> Time("datetime_tz", 0)
    [] OTHER -> t

ParseTime(t) ==
  CASE t.form = "tz" -> Time("datetime_tz", t.age)
    [] t.form \in {"naive", "date"} -> Time("datetime_naive", t.age)
    [] t.form = "garbage" -> Time("datetime_tz", 0)
    [] OTHER -> t

ParseFromSupabase(t) ==
  LET date0 == IF t.date.form # "absent" THEN t.date
               ELSE IF t.processed_at.form # "absent" THEN t.processed_at
               ELSE t.created_at
      date1 == IF TimeTruthy(date0) THEN ParseTime(date0) ELSE date0
  IN [t EXCEPT !.date = IF TimeTruthy(date1) THEN date1 ELSE Time("datetime_tz", 0),
               !.created_at = IF TimeTruthy(@) THEN ParseTime(@) ELSE @,
               !.processed_at = IF TimeTruthy(@) THEN ParseTime(@) ELSE @]

\* Transaction(**parsed) fails validation: amount is a required float,
\* description a required str, and transaction_type and created_at have
\* defaults for a missing key but do not accept null
ValidationFails(t) ==
  \/ t.amount.t # "num"
  \/ t.transaction_type = NULL
  \/ t.description \in {NULL, ABSENT}
  \/ t.created_at.form = "null"

\* the Transaction built from a stored row
AsTransaction(t) ==
  LET parsed == ParseFromSupabase(t)
  IN [user_id |-> parsed.user_id, amount |-> parsed.amount.v,
      description |-> parsed.description, category |-> Get(parsed.category),
      ai_category |-> Get(parsed.ai_category), date |-> parsed.date,
      merchant |-> Get(parsed.merchant),
      transaction_type |-> GetDefault(parsed.transaction_type, "debit")]

Transactions(data) == [i \in 1..Len(data) |-> AsTransaction(data[i])]

\* dccx: the other normaliser.  A string with a time part becomes a date-time,
\* a calendar date string a date object, an unparseable string is left alone.
DccxTime(t) ==
  CASE t.form = "tz" -> Time("datetime_tz", t.age)
    [] t.form = "naive" -> Time("datetime_naive", t.age)
    [] t.form = "date" -> Time("date_object", t.age)
    [] OTHER -> t

Dccx(item) ==
  LET date0 == IF item.processed_at.form # "absent" /\ item.date.form = "absent"
               THEN item.processed_at ELSE item.date
  IN [item EXCEPT !.date = DccxTime(date0),
                  !.created_at = DccxTime(@),
                  !.processed_at = DccxTime(@)]

----------------------------------------------------------------------------
(* GET /api/users/{user_id}/dashboard *)

RecentLimit == 10

DashboardCategory(t) ==
  IF Truthy(t.ai_category) THEN t.ai_category
  ELSE IF Truthy(t.category) THEN t.category
  ELSE "other"

RECURSIVE SumWhere(_, _)
SumWhere(ts, types) ==
  IF ts = <<>> THEN 0
  ELSE (IF Head(ts).transaction_type \in types THEN Head(ts).amount ELSE 0)
       + SumWhere(Tail(ts), types)

IsExpense_AnyType(t) == TRUE

\* transaction.transaction_type in ["debit", "payment", "withdrawal"]
IsExpense(t) == t.transaction_type \in ExpenseTypes

RECURSIVE CategoryTotal(_, _)
CategoryTotal(ts, cat) ==
  IF ts = <<>> THEN 0
  ELSE (IF IsExpense(Head(ts)) /\ DashboardCategory(Head(ts)) = cat
        THEN Head(ts).amount ELSE 0)
       + CategoryTotal(Tail(ts), cat)

CategorySpending(ts) ==
  LET cats == {DashboardCategory(ts[i]) : i \in {j \in 1..Len(ts) : IsExpense(ts[j])}}
  IN [c \in cats |-> CategoryTotal(ts, c)]

\* sorted(transactions, key=date, reverse=True) compares an aware date-time
\* with a naive one and raises
SortRaises(ts) == \E i, j \in 1..Len(ts) : ts[i].date.form # ts[j].date.form

RECURSIVE InsertByDate_Ascending(_, _)
InsertByDate_Ascending(sorted, t) ==
  IF sorted = <<>> THEN <<t>>
  ELSE IF Head(sorted).date.age >= t.date.age
    THEN <<Head(sorted)>> \o InsertByDate_Ascending(Tail(sorted), t)
  ELSE <<t>> \o sorted

\* stable insertion of t into a list ordered newest first
RECURSIVE InsertByDate(_, _)
InsertByDate(sorted, t) ==
  IF sorted = <<>> THEN <<t>>
  ELSE IF Head(sorted).date.age <= t.date.age
    THEN <<Head(sorted)>> \o InsertByDate(Tail(sorted), t)
  ELSE <<t>> \o sorted

RECURSIVE SortByDateDesc(_)
SortByDateDesc(ts) ==
  IF ts = <<>> THEN <<>>
  ELSE InsertByDate(SortByDateDesc(SubSeq(ts, 1, Len(ts) - 1)), ts[Len(ts)])

FirstN(s, n) == SubSeq(s, 1, IF Len(s) < n THEN Len(s) ELSE n)

DashboardBody(user_id, ts) ==
  [user_id |-> user_id,
   summary |-> [total_spent |-> SumWhere(ts, ExpenseTypes),
                total_income |-> SumWhere(ts, IncomeTypes),
                net_cashflow |-> SumWhere(ts, IncomeTypes) - SumWhere(ts, ExpenseTypes),
                transaction_count |-> Len(ts)],
   category_spending |-> CategorySpending(ts),
   recent_transactions |-> FirstN(SortByDateDesc(ts), RecentLimit)]

\* the handler answers 500 when the read, a row's validation or the sort raises
DashboardFails(data, store_ok) ==
  \/ ~store_ok
  \/ \E i \in 1..Len(data) : ValidationFails(data[i])
  \/ SortRaises(Transactions(data))

GetDashboard(u, store_ok) ==
  LET data == RowsOf(txns, u)
  IN /\ resp' = IF DashboardFails(data, store_ok)
                THEN [kind |-> "dashboard", user_id |-> u, store_ok |-> store_ok,
                      code |-> 500]
                ELSE [kind |-> "dashboard", user_id |-> u, store_ok |-> store_ok,
                      code |-> 200, body |-> DashboardBody(u, Transactions(data))]
     /\ UNCHANGED <<txns, goals>>

----------------------------------------------------------------------------
(* FinancialAI.generate_spending_insights, over Transaction objects *)

SpendingCategory(t) ==
  IF Truthy(t.ai_category) THEN t.ai_category
  ELSE IF Truthy(t.category) THEN t.category
  ELSE "other"

RECURSIVE SpendingKeys(_, _)
SpendingKeys(ts, seen) ==
  IF ts = <<>> THEN <<>>
  ELSE LET t == Head(ts)
       IN IF t.transaction_type \in ExpenseTypes /\ SpendingCategory(t) \notin seen
          THEN <<SpendingCategory(t)>>
               \o SpendingKeys(Tail(ts), seen \cup {SpendingCategory(t)})
          ELSE SpendingKeys(Tail(ts), seen)

RECURSIVE SpendingAmounts(_, _)
SpendingAmounts(ts, cat) ==
  IF ts = <<>> THEN <<>>
  ELSE LET t == Head(ts)
       IN IF t.transaction_type \in ExpenseTypes /\ SpendingCategory(t) = cat
          THEN <<t.amount>> \o SpendingAmounts(Tail(ts), cat)
          ELSE SpendingAmounts(Tail(ts), cat)

SpendingTrend(amounts, avg_transaction) ==
  IF Len(amounts) >= 3
  THEN LET recent_avg == Rat(SumSeq(LastThree(amounts)), 3)
       IN IF RatLt(RatMul(avg_transaction, TrendUp), recent_avg) THEN "increasing"
          ELSE IF RatLt(recent_avg, RatMul(avg_transaction, TrendDown)) THEN "decreasing"
          ELSE "stable"
  ELSE "stable"

\* HuggingFaceFinancialAI._fallback_spending_insight, by its template
FallbackSpendingInsight(category) ==
  IF Lower(category) \in {"food", "dining", "restaurants"} THEN "hf:food"
  ELSE IF Lower(category) \in {"entertainment", "movies", "streaming"} THEN "hf:entertainment"
  ELSE IF Lower(category) \in {"transportation", "gas", "uber"} THEN "hf:transportation"
  ELSE "hf:review"

SpendingInsight(user_id, cat, amounts) ==
  [user_id |-> user_id,
   category |-> cat,
   total_amount |-> SumSeq(amounts),
   transaction_count |-> Len(amounts),
   avg_transaction |-> Rat(SumSeq(amounts), Len(amounts)),
   trend |-> SpendingTrend(amounts, Rat(SumSeq(amounts), Len(amounts))),
   ai_recommendation |-> FallbackSpendingInsight(cat)]

\* the list generate_spending_insights returns: the prompt divides by the
\* total spending, and the except branch answers [] when that is zero
GenerateSpendingInsightsResult(user_id, ts) ==
  LET keys == SpendingKeys(ts, {})
  IN IF keys # <<>> /\ SumWhere(ts, ExpenseTypes) = 0 THEN <<>>
     ELSE [i \in 1..Len(keys) |->
             SpendingInsight(user_id, keys[i], SpendingAmounts(ts, keys[i]))]

\* the method applied to the user's stored transactions
GenerateSpendingInsights(u) ==
  LET data == RowsOf(txns, u)
  IN /\ \A i \in 1..Len(data) : ~ValidationFails(data[i])
     /\ resp' = [kind |-> "generate_spending_insights", user_id |-> u,
                 insights |-> GenerateSpendingInsightsResult(u, Transactions(data))]
     /\ UNCHANGED <<txns, goals>>

----------------------------------------------------------------------------
(* POST /api/users/{user_id}/goals *)

GoalBody(title, target_amount, current_amount) ==
  [title |-> title, target_amount |-> target_amount, current_amount |-> current_amount]

GoalBodies ==
  {GoalBody("Trip", Num(2), 0), GoalBody("Trip", Num(4), 0), GoalBody("Trip", Num(1), 2),
   GoalBody(ABSENT, Num(1), 0), GoalBody("Trip", AmtAbsent, 0)}

\* a required field is missing: the HTTPException(400) is raised inside the
\* try and the except Exception clause turns it into a 500
MissingField(body) == body.title = ABSENT \/ body.target_amount.t = "absent"

NewGoalId == "g" \o ToString(Len(goals) + 1)

----------------------------------------------------------------------------
(* Writers of the store *)

MaxRows == 3

\* another writer of the transactions table inserts a row
StoreInsert(row) ==
  /\ Len(txns) + Len(goals) < MaxRows
  /\ txns' = Append(txns, row)
  /\ resp' = NoResp
  /\ UNCHANGED goals

\* the first required field the body lacks, in the order the handler checks
FirstMissing(body) == IF body.title = ABSENT THEN "title" ELSE "target_amount"

\* the detail of the 500 the except clause raises, by its parts:
\* f"Error creating goal: {str(e)}", where str of an HTTPException is
\* "<status>: <detail>"
CreateGoalDetail(body) ==
  IF MissingField(body)
  THEN <<"Error creating goal", "400", "Missing required field", FirstMissing(body)>>
  ELSE <<"Error creating goal", "store error">>

CreateGoal(u, body, store_ok) ==
  /\ Len(txns) + Len(goals) < MaxRows
  /\ IF MissingField(body) \/ ~store_ok
     THEN /\ resp' = [kind |-> "create_goal", user_id |-> u, request |-> body,
                      rows_before |-> Len(goals), code |-> 500,
                      detail |-> CreateGoalDetail(body)]
          /\ UNCHANGED goals
     ELSE /\ goals' = Append(goals, Goal(NewGoalId, u, body.target_amount.v,
                                         body.current_amount))
          /\ resp' = [kind |-> "create_goal", user_id |-> u, request |-> body,
                      rows_before |-> Len(goals), code |-> 200,
                      goal |-> goals'[Len(goals')]]
  /\ UNCHANGED txns

\* the goal ids a DELETE may name: the ids create_goal hands out and one that
\* no goal has
GoalIds == {"g1", "g2", "g0"}

\* update(...).eq('id', goal_id).eq('user_id', user_id) matches a row
MatchesGoal(g, u, goal_id) == g.id = goal_id /\ g.user_id = u

\* the detail of the 500 delete_goal raises: the 404 raised inside the try
\* is caught by the except clause
DeleteGoalDetail(store_ok) ==
  IF store_ok THEN <<"Error deleting goal", "404", "Goal not found">>
  ELSE <<"Error deleting goal", "store error">>

\* DELETE /api/users/{user_id}/goals/{goal_id}: a soft delete
DeleteGoal(u, goal_id, store_ok) ==
  /\ IF store_ok /\ \E i \in 1..Len(goals) : MatchesGoal(goals[i], u, goal_id)
     THEN /\ goals' = [i \in 1..Len(goals) |->
                         IF MatchesGoal(goals[i], u, goal_id)
                         THEN [goals[i] EXCEPT !.is_active = FALSE]
                         ELSE goals[i]]
          /\ resp' = [kind |-> "delete_goal", user_id |-> u, goal_id |-> goal_id,
                      code |-> 200, message |-> "Goal deleted successfully"]
     ELSE /\ resp' = [kind |-> "delete_goal", user_id |-> u, goal_id |-> goal_id,
                      code |-> 500, detail |-> DeleteGoalDetail(store_ok)]
          /\ UNCHANGED goals
  /\ UNCHANGED txns

----------------------------------------------------------------------------

Init ==
  /\ txns = <<>>
  /\ goals = <<>>
  /\ resp = NoResp

Next ==
  \/ \E row \in RowShapes : StoreInsert(row)
  \/ \E u \in Users, body \in GoalBodies, ok \in BOOLEAN : CreateGoal(u, body, ok)
  \/ \E u \in Users, ok \in BOOLEAN : GetInsights(u, ok)
  \/ \E u \in Users, ok \in BOOLEAN : GetDashboard(u, ok)
  \/ \E u \in Users, goals_ok, txns_ok, guidance_ok \in BOOLEAN :
       GetGoalForecast(u, goals_ok, txns_ok, guidance_ok)

Spec == Init /\ [][Next]_vars

----------------------------------------------------------------------------
(* The forecaster and the forecast endpoint over one stored goal *)

MaxTarget == 13
MaxCurrent == 2
MaxSavings == 2
MaxExpense == 5

SavingsInputs == {AmtNull} \cup {Num(m) : m \in -1..MaxSavings}
Collaborator == {"text", "empty", "raise"}

InitForecast ==
  /\ txns \in {<<>>}
       \cup {<<Row("u1", Num(e), "payment", "food", NULL, ABSENT, Recent)>> : e \in 1..MaxExpense}
  /\ goals \in {<<Goal("g1", "u1", t, c)>> : t \in 0..MaxTarget, c \in 0..MaxCurrent}
  /\ resp = NoResp

NextForecast ==
  \/ \E ms \in SavingsInputs, ai \in Collaborator, i \in 1..Len(goals) :
       ForecastGoalProgress(ms, goals[i].target_amount, goals[i].current_amount, ai)
  \/ \E goals_ok, txns_ok, guidance_ok \in BOOLEAN :
       GetGoalForecast("u1", goals_ok, txns_ok, guidance_ok)

SpecForecast == InitForecast /\ [][NextForecast]_vars

----------------------------------------------------------------------------
(* The insight generators over an ordered list of expenses *)

MaxTrendLen == 5
MaxTrendAmount == 3

TrendRows ==
  {Row("u1", Num(a), "payment", "food", "food", "Whole Foods", Recent) : a \in 1..MaxTrendAmount}
  \cup {Row("u1", Num(2), "payment", "Rent", NULL, ABSENT, Recent)}

InitTrend ==
  /\ txns \in BoundedSeq(TrendRows, MaxTrendLen)
  /\ goals = <<>>
  /\ resp = NoResp

NextTrend ==
  \/ \E ok \in BOOLEAN : GetInsights("u1", ok)
  \/ GenerateSpendingInsights("u1")

SpecTrend == InitTrend /\ [][NextTrend]_vars

----------------------------------------------------------------------------
(* The normalisers and the aggregates over loosely-typed stored rows *)

MaxRecords == 2

\* a stored row with each timestamp field given on its own
Record(amount, ttype, description, ai_category, category, merchant, date, processed_at, created_at) ==
  [Row("u1", amount, ttype, ai_category, category, merchant, processed_at)
     EXCEPT !.description = description, !.date = date, !.created_at = created_at]

RecordShapes ==
  {Record(Num(2), "payment", "Purchase", "food", NULL, "Whole Foods",
          TimeAbsent, Time("tz", 5), Time("tz", 5)),
   Record(Num(1), "debit", "Purchase", NULL, "Dining Out", ABSENT,
          Time("date", 3), TimeAbsent, TimeAbsent),
   Record(Num(2), "payment", "Purchase", "food", NULL, ABSENT,
          TimeAbsent, Time("naive", 2), Time("tz", 2)),
   Record(Num(3), "payment", "Purchase", "food", NULL, ABSENT,
          TimeAbsent, Time("garbage", 0), Time("tz", 7)),
   Record(Num(1), "payment", "Purchase", "food", ABSENT, ABSENT,
          TimeAbsent, TimeAbsent, TimeAbsent),
   Record(Num(2), "payment", "Purchase", "food", NULL, ABSENT,
          TimeAbsent, TimeNull, Time("tz", 4)),
   Record(Num(2), "payment", "Purchase", "food", NULL, ABSENT,
          TimeAbsent, Time("tz", 6), TimeNull),
   Record(Num(2), "payment", NULL, "food", NULL, ABSENT,
          TimeAbsent, Time("tz", 5), Time("tz", 5)),
   Record(Num(1), "payment", "Purchase", NULL, NULL, NULL,
          TimeAbsent, Time("tz", 5), Time("tz", 5)),
   Record(AmtText, "payment", "Purchase", "food", NULL, ABSENT,
          TimeAbsent, Time("tz", 5), Time("tz", 5)),
   Record(Num(3), "credit", "Purchase", NULL, "salary", ABSENT,
          TimeAbsent, Time("tz", 1), Time("tz", 1)),
   Record(Num(4), "payment", "Purchase", "Netflix", NULL, ABSENT,
          TimeAbsent, Time("tz", 45), Time("tz", 45)),
   Record(Num(2), "payment", "Purchase", "food", NULL, ABSENT,
          Time("tz", 45), Time("tz", 5), Time("tz", 5))}

\* parse_from_supabase applied to a stored row, and again to its own result
ParseRecord(i) ==
  /\ resp' = [kind |-> "parse_from_supabase", row |-> txns[i],
              once |-> ParseFromSupabase(txns[i]),
              twice |-> ParseFromSupabase(ParseFromSupabase(txns[i]))]
  /\ UNCHANGED <<txns, goals>>

\* dccx applied to a stored row, and again to its own result
DccxRecord(i) ==
  /\ resp' = [kind |-> "dccx", row |-> txns[i],
              once |-> Dccx(txns[i]),
              twice |-> Dccx(Dccx(txns[i]))]
  /\ UNCHANGED <<txns, goals>>

InitRecords ==
  /\ txns \in BoundedSeq(RecordShapes, MaxRecords)
  /\ goals = <<Goal("g1", "u1", 6, 0)>>
  /\ resp = NoResp

NextRecords ==
  \/ \E i \in 1..Len(txns) : ParseRecord(i)
  \/ \E i \in 1..Len(txns) : DccxRecord(i)
  \/ \E ok \in BOOLEAN : GetInsights("u1", ok)
  \/ \E ok \in BOOLEAN : GetDashboard("u1", ok)
  \/ \E goals_ok, txns_ok, guidance_ok \in BOOLEAN :
       GetGoalForecast("u1", goals_ok, txns_ok, guidance_ok)

SpecRecords == InitRecords /\ [][NextRecords]_vars

----------------------------------------------------------------------------
(* The dashboard over more rows than it lists *)

MaxRecent == 12
MaxStride == 5
AgeCycle == 7

\* the i-th row of a store filled with stride k: rows told apart by their
\* description, ages cycling so that order of insertion and order of time differ
RecentRow(i, k) ==
  [Row("u1", Num(1), "payment", "food", NULL, ABSENT, Time("tz", (i * k) % AgeCycle))
     EXCEPT !.description = "t" \o ToString(i)]

InitRecent ==
  /\ txns \in {[i \in 1..n |-> RecentRow(i, k)] : n \in 0..MaxRecent, k \in 1..MaxStride}
  /\ goals = <<>>
  /\ resp = NoResp

NextRecent == \E ok \in BOOLEAN : GetDashboard("u1", ok)

SpecRecent == InitRecent /\ [][NextRecent]_vars

----------------------------------------------------------------------------
(* The goal handlers: create, soft delete, forecast *)

InitGoals ==
  /\ txns \in {<<>>, <<Row("u1", Num(2), "payment", "food", NULL, ABSENT, Recent)>>}
  /\ goals = <<>>
  /\ resp = NoResp

NextGoals ==
  \/ \E u \in Users, body \in GoalBodies, ok \in BOOLEAN : CreateGoal(u, body, ok)
  \/ \E u \in Users, goal_id \in GoalIds, ok \in BOOLEAN : DeleteGoal(u, goal_id, ok)
  \/ \E u \in Users, goals_ok, txns_ok, guidance_ok \in BOOLEAN :
       GetGoalForecast(u, goals_ok, txns_ok, guidance_ok)

SpecGoals == InitGoals /\ [][NextGoals]_vars

----------------------------------------------------------------------------
(* GET goal-forecast under asyncio.wait_for(..., timeout=10.0) *)

\* how long the computation runs: it returns within the timeout, returns
\* after it, or a store call in it does not return
Paces == {"in_time", "late", "never"}

\* the result of the except asyncio.TimeoutError branch
TimeoutResult(user_id) ==
  [user_id |-> user_id, monthly_savings_estimate |-> RatOfInt(0),
   forecasts |-> <<>>, total_goals |-> 0, message |-> "forecast analysis timed out"]

\* wait_for raises TimeoutError only if its timer callback runs while the
\* awaited coroutine is suspended.  _get_goal_forecast_internal has no await:
\* its store calls are synchronous, so it runs from start to return in one
\* step of the event loop and the callback cannot run before the result is set.
TimerFires(pace) == FALSE

\* the handler with the pace of its computation; while a store call does not
\* return the event loop is held and no request is answered
GetGoalForecastPaced(u, goals_ok, txns_ok, guidance_ok, pace) ==
  /\ resp.kind # "goal_forecast_unanswered"
  /\ resp' = IF TimerFires(pace)
             THEN [kind |-> "goal_forecast", user_id |-> u, pace |-> pace, code |-> 200,
                   body |-> TimeoutResult(u)]
             ELSE IF pace = "never"
             THEN [kind |-> "goal_forecast_unanswered", user_id |-> u, pace |-> pace]
             ELSE [kind |-> "goal_forecast", user_id |-> u, pace |-> pace, code |-> 200,
                   body |-> GoalForecastBody(u, goals_ok, txns_ok, guidance_ok)]
  /\ UNCHANGED <<txns, goals>>

NextTimeout ==
  \E goals_ok, txns_ok, guidance_ok \in BOOLEAN, pace \in Paces :
    GetGoalForecastPaced("u1", goals_ok, txns_ok, guidance_ok, pace)

SpecTimeout == InitForecast /\ [][NextTimeout]_vars

----------------------------------------------------------------------------
(* POST /api/users/{user_id}/transactions and FinancialAI.analyze_transaction *)

MaxPosts == 2

\* the keywords of _guess_category that occur in description.lower()
DescriptionWords(description) ==
  CASE description = "Whole Foods Market" -> {"market", "food"}
    [] description = "Gas & Food Mart" -> {"gas", "food"}
    [] description = "Uber ride" -> {"uber"}
    [] description = "Netflix" -> {"netflix"}
    [] description = "Purchase at Netflix" -> {"netflix"}
    [] OTHER -> {}

GuessCategory(description) ==
  LET words == DescriptionWords(description)
  IN IF words \cap {"grocery", "market", "food", "restaurant", "cafe", "coffee"} # {} THEN "food"
     ELSE IF words \cap {"gas", "fuel", "uber", "lyft", "taxi", "transport"} # {}
       THEN "transportation"
     ELSE IF words \cap {"movie", "entertainment", "netflix", "spotify", "game"} # {}
       THEN "entertainment"
     ELSE IF words \cap {"electric", "water", "internet", "phone", "utility"} # {}
       THEN "utilities"
     ELSE IF words \cap {"amazon", "store", "mall", "shop"} # {} THEN "shopping"
     ELSE "other"

\* What the text collaborator does on a call: it raises, or returns text that
\* is not JSON, a JSON object without one of the three keys, a JSON object
\* with them, a JSON number, a JSON array whose elements are the three key
\* names, or a JSON string that contains them.
CollaboratorOutputs ==
  {"raise", "not_json", "object_missing_key", "object", "number", "array_of_keys",
   "string_of_keys"}

AnalysisFallback(description) ==
  [t |-> "dict", category |-> GuessCategory(description),
   insight |-> "Transaction recorded successfully", tip |-> ""]

\* the value analyze_transaction returns.  all(field in ai_analysis ...) is
\* satisfied by a list that contains the names and by a string that contains
\* them; on a number it raises TypeError, which the outer except handles.
AnalyzeTransaction(description, out) ==
  CASE out \in {"raise", "not_json", "object_missing_key", "number"} ->
         AnalysisFallback(description)
    [] out = "object" ->
         [t |-> "dict", category |-> "shopping", insight |-> "a considered purchase",
          tip |-> ""]
    [] out = "array_of_keys" -> [t |-> "list"]
    [] out = "string_of_keys" -> [t |-> "str"]

PostBody(amount, description, merchant, transaction_type) ==
  [amount |-> amount, description |-> description, merchant |-> merchant,
   transaction_type |-> transaction_type]

PostBodies ==
  {PostBody(Num(2), "Whole Foods Market", "Whole Foods", ABSENT),
   PostBody(Num(1), "Uber ride", ABSENT, "debit"),
   PostBody(Num(3), "Salary", ABSENT, "credit"),
   PostBody(Num(1), ABSENT, ABSENT, ABSENT),
   PostBody(AmtAbsent, "Netflix", ABSENT, ABSENT)}

\* Transaction(...) rejects the body: amount and description are required
InvalidPost(body) == body.amount.t # "num" \/ body.description = ABSENT

\* the handler raises: validation, ai_analysis.get on a value that is not a
\* dict, or the store insert
AddTransactionFails(body, out, store_ok) ==
  \/ InvalidPost(body)
  \/ AnalyzeTransaction(body.description, out).t # "dict"
  \/ ~store_ok

AddTransaction(u, body, out, store_ok) ==
  /\ Len(txns) < MaxPosts
  /\ IF AddTransactionFails(body, out, store_ok)
     THEN /\ resp' = [kind |-> "add_transaction", user_id |-> u, request |-> body,
                      collaborator |-> out, store_ok |-> store_ok, code |-> 500]
          /\ UNCHANGED txns
     ELSE LET ai_analysis == AnalyzeTransaction(body.description, out)
          IN /\ txns' = Append(txns,
                          [id |-> Len(txns) + 1] @@
                          [Row(u, body.amount, "payment", ai_analysis.category, NULL,
                               Get(body.merchant), Time("tz", 0))
                             EXCEPT !.description = body.description])
             /\ resp' = [kind |-> "add_transaction", user_id |-> u, request |-> body,
                         collaborator |-> out, store_ok |-> store_ok, code |-> 200,
                         transaction |->
                           [user_id |-> u, amount |-> body.amount.v,
                            description |-> body.description,
                            merchant |-> Get(body.merchant), category |-> NULL,
                            ai_category |-> ai_analysis.category,
                            ai_insights |-> [category |-> ai_analysis.category,
                                             insight |-> ai_analysis.insight,
                                             tip |-> ai_analysis.tip],
                            transaction_type |-> GetDefault(body.transaction_type, "debit")]]
  /\ UNCHANGED goals

InitPost ==
  /\ txns = <<>>
  /\ goals = <<>>
  /\ resp = NoResp

NextPost ==
  \E u \in Users, body \in PostBodies, out \in CollaboratorOutputs, ok \in BOOLEAN :
    AddTransaction(u, body, out, ok)

SpecPost == InitPost /\ [][NextPost]_vars

----------------------------------------------------------------------------
(* Claims about the goal forecaster *)

FourTiers == {"no_savings", "on_track", "moderate_track", "off_track"}

\* a forecaster call with a numeric savings rate has answered
IsForecasterCall == resp.kind = "forecast_goal_progress" /\ resp.monthly_savings.t = "num"

\* the forecasts of an endpoint response that went through the computation
ComputedForecasts ==
  IF resp.kind = "goal_forecast"
  THEN {resp.body.forecasts[i] : i \in {j \in 1..Len(resp.body.forecasts) :
                                          "remaining" \in DOMAIN resp.body.forecasts[j]}}
  ELSE {}

Max0(x) == IF x > 0 THEN x ELSE 0

\* the tier of remaining r at the savings rate n/d, stated without a quotient:
\* r / (n/d) <= k  <=>  r * d <= k * n  for n/d > 0
TierOf(r, n, d) ==
  IF n <= 0 THEN "no_savings"
  ELSE IF r * d <= 6 * n THEN "on_track"
  ELSE IF r * d <= 12 * n THEN "moderate_track"
  ELSE "off_track"

\* C1: the status of a forecast is no_savings when monthlySavings <= 0, else
\* on_track when monthsNeeded <= 6, moderate_track when 6 < monthsNeeded <= 12
\* and off_track above 12, in the forecaster and in the endpoint's forecasts
C1_StatusByMonths ==
  /\ IsForecasterCall =>
       resp.result.status =
         TierOf(Max0(resp.target_amount - resp.current_amount), resp.monthly_savings.v, 1)
  /\ \A f \in ComputedForecasts :
       f.status = TierOf(Max0(f.target_amount - f.current_amount),
                         resp.body.monthly_savings_estimate[1],
                         resp.body.monthly_savings_estimate[2])

\* target 1200, current 0, savings 200 (in hundreds) is answered on_track
C1_Witness ==
  /\ IsForecasterCall
  /\ resp.target_amount = 12 /\ resp.current_amount = 0 /\ resp.monthly_savings.v = 2
  /\ resp.result.status = "on_track"

\* C2: months_needed is null exactly when monthlySavings <= 0, and otherwise
\* equals remaining / monthlySavings
C2_MonthsNeeded ==
  /\ IsForecasterCall =>
       LET r == Max0(resp.target_amount - resp.current_amount)
           m == resp.result.months_needed
       IN /\ m.null <=> resp.monthly_savings.v <= 0
          /\ ~m.null => m.v[2] # 0 /\ m.v[1] * resp.monthly_savings.v = r * m.v[2]
  /\ \A f \in ComputedForecasts :
       LET r == Max0(f.target_amount - f.current_amount)
           sav == resp.body.monthly_savings_estimate
           m == f.months_needed
       IN /\ m.null <=> sav[1] <= 0
          /\ ~m.null => m.v[2] # 0 /\ m.v[1] * sav[1] = r * sav[2] * m.v[2]

\* a forecast at zero savings carries the null sentinel
C2_Witness ==
  /\ IsForecasterCall
  /\ resp.monthly_savings.v = 0
  /\ resp.result.months_needed.null
  /\ resp.result.status = "no_savings"

\* C3: every forecast the forecaster returns, on its normal path and on its
\* error path, and every computed forecast of the endpoint, has
\* remaining = max(targetAmount - currentAmount, 0), which is never negative
C3_Remaining ==
  /\ resp.kind = "forecast_goal_progress" =>
       /\ resp.result.remaining = Max0(resp.target_amount - resp.current_amount)
       /\ resp.result.remaining >= 0
  /\ \A f \in ComputedForecasts :
       /\ f.remaining = Max0(f.target_amount - f.current_amount)
       /\ f.remaining >= 0

\* the error path answered for a goal whose current amount exceeds its target
C3_Witness ==
  /\ resp.kind = "forecast_goal_progress"
  /\ resp.result.status = "unknown"
  /\ resp.current_amount > resp.target_amount
  /\ resp.result.remaining = 0

----------------------------------------------------------------------------
(* Claims about GET goal-forecast *)

AllForecasts ==
  IF resp.kind = "goal_forecast"
  THEN {resp.body.forecasts[i] : i \in 1..Len(resp.body.forecasts)}
  ELSE {}

\* C4 as stated: every forecast entry of every goal-forecast response carries
\* one of the four status tiers
C4_Original == \A f \in AllForecasts : f.status \in FourTiers

\* C4 as amended: a forecast entry computed from the user's transactions
\* carries one of the four tiers; the entries answered when the user has goals
\* and no transaction rows carry no_data; the placeholder answered on a failure
\* carries error
C4_StatusByPath ==
  resp.kind = "goal_forecast" =>
    \A f \in AllForecasts :
      /\ f.status \in FourTiers \cup {"no_data", "error"}
      /\ f.status \in FourTiers <=> "remaining" \in DOMAIN f
      /\ f.status = "no_data" => RowsOf(txns, resp.user_id) = <<>>
      /\ f.status = "error" <=> f.goal_id = "fallback"

\* a user with a goal and no transactions is answered a no_data forecast
C4_Witness ==
  /\ resp.kind = "goal_forecast"
  /\ \E f \in AllForecasts : f.status = "no_data"

----------------------------------------------------------------------------
(* Claims about the trend of a category *)

\* the insights of a response that went through an insight generator
GeneratedInsights ==
  IF resp.kind = "insights" /\ resp.body.analysis_period = "last_30_days"
    THEN {resp.body.insights[i] : i \in 1..Len(resp.body.insights)}
  ELSE IF resp.kind = "generate_spending_insights"
    THEN {resp.insights[i] : i \in 1..Len(resp.insights)}
  ELSE {}

\* the stored amounts of one category, in store order (the rows of this
\* specification carry their category in ai_category)
RECURSIVE AmountsIn(_, _)
AmountsIn(rows, cat) ==
  IF rows = <<>> THEN <<>>
  ELSE (IF Head(rows).ai_category = cat THEN <<Head(rows).amount.v>> ELSE <<>>)
       \o AmountsIn(Tail(rows), cat)

\* recentAvg > 1.2 avg  <=>  5 n s3 > 18 s;  recentAvg < 0.8 avg  <=>  5 n s3 < 12 s
ExpectedTrend(a) ==
  IF Len(a) < 3 THEN "stable"
  ELSE LET n == Len(a)
           s3 == a[n] + a[n - 1] + a[n - 2]
       IN IF 5 * n * s3 > 18 * SumSeq(a) THEN "increasing"
          ELSE IF 5 * n * s3 < 12 * SumSeq(a) THEN "decreasing"
          ELSE "stable"

\* C5: with fewer than 3 amounts the trend is stable; otherwise it is
\* increasing when the mean of the last 3 exceeds 1.2 times the overall mean,
\* decreasing when it is below 0.8 times it, and stable otherwise
C5_TrendRule ==
  \A ins \in GeneratedInsights :
    ins.trend = ExpectedTrend(AmountsIn(RowsOf(txns, "u1"), ins.category))

\* five amounts whose last three lift the trend to increasing
C5_Witness ==
  /\ resp.kind = "insights"
  /\ \E ins \in GeneratedInsights :
       /\ ins.trend = "increasing"
       /\ ins.transaction_count = 5

Swap(a, i, j) == [a EXCEPT ![i] = a[j], ![j] = a[i]]
Reverse(a) == [i \in 1..Len(a) |-> a[Len(a) + 1 - i]]
TrendOf(a) == Trend(a, AvgTransaction(SumSeq(a), Len(a)))

\* C6: exchanging two amounts that both lie before the last three never
\* changes the trend (the exchanges generate every permutation of that prefix)
C6_PrefixPermutation ==
  \A ins \in GeneratedInsights :
    LET a == AmountsIn(RowsOf(txns, "u1"), ins.category)
    IN \A i, j \in 1..(Len(a) - 3) : TrendOf(Swap(a, i, j)) = ins.trend

\* order matters: a sequence whose trend differs from that of its reversal
C6_Witness ==
  /\ resp.kind = "insights"
  /\ \E ins \in GeneratedInsights :
       LET a == AmountsIn(RowsOf(txns, "u1"), ins.category)
       IN /\ ins.trend # TrendOf(Reverse(a))
          /\ Len(a) = 5 /\ a[1] # a[2]

----------------------------------------------------------------------------
(* Claims about GET insights and the dashboard's category breakdown *)

\* the insights of a GET insights response
AnsweredInsights ==
  IF resp.kind = "insights"
  THEN {resp.body.insights[i] : i \in 1..Len(resp.body.insights)}
  ELSE {}

\* the rows of the user the last request was about
AskedRows == RowsOf(txns, resp.user_id)

\* C7: every insight with transaction_count > 0 has avg_transaction =
\* total_amount / transaction_count, and no insight's average is a quotient
\* by zero
C7_AvgTransaction ==
  \A ins \in AnsweredInsights :
    /\ ins.avg_transaction[2] # 0
    /\ ins.transaction_count > 0 =>
         ins.avg_transaction[1] * ins.transaction_count
           = ins.total_amount * ins.avg_transaction[2]

\* two food purchases of 2 and 1: the average 3/2 is not a whole number
C7_Witness ==
  \E ins \in AnsweredInsights :
    /\ ins.total_amount = 3
    /\ ins.transaction_count = 2
    /\ ins.category = "food"

\* the amounts of the expense-bearing rows (a row without a type is a debit)
RECURSIVE ExpenseAmounts(_)
ExpenseAmounts(rows) ==
  IF rows = <<>> THEN <<>>
  ELSE (IF GetDefault(Head(rows).transaction_type, "debit") \in ExpenseTypes
        THEN <<Head(rows).amount.v>> ELSE <<>>)
       \o ExpenseAmounts(Tail(rows))

RECURSIVE SumOver(_)
SumOver(f) ==
  IF DOMAIN f = {} THEN 0
  ELSE LET k == CHOOSE x \in DOMAIN f : TRUE
       IN f[k] + SumOver([x \in DOMAIN f \ {k} |-> f[x]])

InsightTotals == [i \in 1..Len(resp.body.insights) |-> resp.body.insights[i].total_amount]

\* the aggregation of GET insights ran to its end over the user's rows
InsightsAggregated ==
  /\ resp.kind = "insights"
  /\ resp.body.analysis_period \in {"last_30_days", "no_data_yet"}

DashboardAnswered == resp.kind = "dashboard" /\ resp.code = 200

\* C8: the per-category totals add up to the sum of the amounts of all
\* expense-bearing transactions, in the insights aggregation and in the
\* dashboard's category breakdown
C8_Original ==
  /\ InsightsAggregated => SumSeq(InsightTotals) = SumSeq(ExpenseAmounts(AskedRows))
  /\ DashboardAnswered =>
       SumOver(resp.body.category_spending) = SumSeq(ExpenseAmounts(AskedRows))

\* the same statement over stores that hold no negative amount
C8_NonNegativeStore ==
  (/\ resp.kind \in {"insights", "dashboard"}
   /\ \A i \in 1..Len(AskedRows) : AskedRows[i].amount.v >= 0) => C8_Original

\* no row of the user is expense-bearing
NoExpense(rows) == ExpenseAmounts(rows) = <<>>

IsZeroInsight(ins, category) ==
  /\ ins.category = category
  /\ ins.total_amount = 0
  /\ ins.avg_transaction[1] = 0
  /\ ins.ai_recommendation # ""

IsStarterPair(insights) ==
  /\ Len(insights) = 2
  /\ IsZeroInsight(insights[1], "food") /\ insights[1].transaction_count = 0
  /\ IsZeroInsight(insights[2], "entertainment") /\ insights[2].transaction_count = 0

\* C9 as stated: whenever the user's rows hold no expense, empty list or
\* income only, GET insights returns the food and entertainment placeholders
C9_Original ==
  (resp.kind = "insights" /\ resp.store_ok /\ NoExpense(AskedRows))
    => IsStarterPair(resp.body.insights)

\* C9: with no rows GET insights returns the food and entertainment
\* placeholders with zero total, count and average; with rows of which none
\* is expense-bearing (every amount a number) it returns the single placeholder
\* 'general' with zero total and average, whose count is the number of rows
C9_NoExpenseAnswers ==
  (resp.kind = "insights" /\ resp.store_ok /\ NoExpense(AskedRows)
     /\ \A i \in 1..Len(AskedRows) : AskedRows[i].amount.t \in {"num", "absent"})
    => IF AskedRows = <<>>
       THEN IsStarterPair(resp.body.insights)
       ELSE /\ Len(resp.body.insights) = 1
            /\ IsZeroInsight(resp.body.insights[1], "general")
            /\ resp.body.insights[1].transaction_count = Len(AskedRows)

\* an income-only user is answered with the 'general' placeholder
C9_Witness ==
  /\ resp.kind = "insights" /\ resp.store_ok
  /\ AskedRows # <<>> /\ NoExpense(AskedRows)
  /\ resp.body.insights[1].category = "general"

InsightFields == {"category", "total_amount", "transaction_count", "ai_recommendation"}

\* C10: GET insights always answers successfully, with a non-empty list of
\* insights that each carry category, total_amount, transaction_count and a
\* non-empty ai_recommendation, whatever the store holds or does
C10_InsightsAlwaysAnswer ==
  resp.kind = "insights" =>
    /\ resp.code = 200
    /\ resp.body.insights # <<>>
    /\ \A ins \in AnsweredInsights :
         /\ InsightFields \subseteq DOMAIN ins
         /\ ins.ai_recommendation # ""

\* the store fails under a user who has rows, and the request is answered
C10_Witness ==
  /\ resp.kind = "insights" /\ ~resp.store_ok
  /\ AskedRows # <<>>
  /\ resp.body.insights # <<>>

----------------------------------------------------------------------------
(* Claims about the normalisers and rows with gaps *)

TimeFields(r) == {r.date, r.processed_at, r.created_at}

\* the row's required fields are sound and its timestamps, where given, are
\* ISO date-times with an offset: only optional fields are absent or null
OnlyOptionalGaps(r) ==
  /\ r.amount.t = "num"
  /\ r.transaction_type # NULL
  /\ \A t \in TimeFields(r) : t.form \in {"tz", "null", "absent"}

\* C11: normalising or aggregating a stored record never raises because
\* merchant, category, ai_category, description or a timestamp field is absent
\* or null: the insights aggregation runs to its end and the dashboard answers
\* over all of the user's rows
C11_Original ==
  (resp.kind \in {"insights", "dashboard"} /\ resp.store_ok
     /\ \A i \in 1..Len(AskedRows) : OnlyOptionalGaps(AskedRows[i]))
    => IF resp.kind = "insights"
       THEN resp.body.analysis_period # "getting_started"
       ELSE resp.code = 200 /\ resp.body.summary.transaction_count = Len(AskedRows)

\* C12: normalisation is idempotent: normalising the result of a
\* normalisation (a record whose timestamps are already date-time values and
\* whose date is present) returns it unchanged, for every stored record
C12_Idempotent ==
  resp.kind \in {"parse_from_supabase", "dccx"} => resp.twice = resp.once

\* a row whose date had to be derived and whose timestamp strings were parsed
C12_Witness ==
  /\ resp.kind = "parse_from_supabase"
  /\ resp.row.date.form = "absent"
  /\ resp.row.processed_at.form = "tz" /\ resp.row.processed_at.age > 0
  /\ resp.once.date = Time("datetime_tz", resp.row.processed_at.age)
  /\ resp.once # resp.row

----------------------------------------------------------------------------
(* Claims about the dashboard *)

\* the category the dashboard files a stored row under
StoredCategory(r) ==
  IF Truthy(r.ai_category) THEN r.ai_category
  ELSE IF Truthy(r.category) THEN r.category
  ELSE "other"

\* the amounts of the rows whose type (debit when missing) is in types and
\* whose category is in cats
RECURSIVE AmountsOf(_, _, _)
AmountsOf(rows, types, cats) ==
  IF rows = <<>> THEN <<>>
  ELSE (IF /\ GetDefault(Head(rows).transaction_type, "debit") \in types
           /\ StoredCategory(Head(rows)) \in cats
        THEN <<Head(rows).amount.v>> ELSE <<>>)
       \o AmountsOf(Tail(rows), types, cats)

AllCategories == {StoredCategory(AskedRows[i]) : i \in 1..Len(AskedRows)}

ExpenseCategories ==
  {StoredCategory(AskedRows[i]) :
     i \in {j \in 1..Len(AskedRows) :
              GetDefault(AskedRows[j].transaction_type, "debit") \in ExpenseTypes}}

\* C13: in the dashboard, income-bearing transactions enter no
\* category_spending entry and only total_income, expense-bearing ones enter
\* total_spent, net_cashflow = total_income - total_spent and
\* transaction_count is the number of the user's transactions
C13_DashboardSummary ==
  DashboardAnswered =>
    LET body == resp.body
    IN /\ body.summary.total_income = SumSeq(AmountsOf(AskedRows, IncomeTypes, AllCategories))
       /\ body.summary.total_spent = SumSeq(AmountsOf(AskedRows, ExpenseTypes, AllCategories))
       /\ body.summary.net_cashflow = body.summary.total_income - body.summary.total_spent
       /\ body.summary.transaction_count = Len(AskedRows)
       /\ DOMAIN body.category_spending = ExpenseCategories
       /\ \A c \in ExpenseCategories :
            body.category_spending[c] = SumSeq(AmountsOf(AskedRows, ExpenseTypes, {c}))

\* a salary and a purchase: the salary's category has no entry
C13_Witness ==
  /\ DashboardAnswered
  /\ resp.body.summary.total_income > 0
  /\ resp.body.summary.total_spent > 0
  /\ "salary" \notin DOMAIN resp.body.category_spending

Min(a, b) == IF a < b THEN a ELSE b

\* the rows of the user that recent_transactions lists, by description
Listed == {resp.body.recent_transactions[i].description :
             i \in 1..Len(resp.body.recent_transactions)}

\* C14: recent_transactions holds min(10, n) of the user's n transactions,
\* newest first, and no transaction left out is newer than one it holds
C14_RecentTen ==
  DashboardAnswered =>
    LET recent == resp.body.recent_transactions
        rows == AskedRows
    IN /\ Len(recent) = Min(10, Len(rows))
       /\ Cardinality(Listed) = Len(recent)
       /\ \A i \in 1..Len(recent) :
            \E j \in 1..Len(rows) :
              /\ rows[j].description = recent[i].description
              /\ rows[j].processed_at.age = recent[i].date.age
       /\ \A i, j \in 1..Len(recent) : i < j => recent[i].date.age <= recent[j].date.age
       /\ \A j \in 1..Len(rows) :
            rows[j].description \notin Listed =>
              \A i \in 1..Len(recent) : recent[i].date.age <= rows[j].processed_at.age

\* twelve rows stored out of time order: two are left out
C14_Witness ==
  /\ DashboardAnswered
  /\ Len(AskedRows) = 12
  /\ Len(resp.body.recent_transactions) = 10
  /\ \E i \in 1..11 : AskedRows[i].processed_at.age < AskedRows[i + 1].processed_at.age

----------------------------------------------------------------------------
(* Claims about the goal handlers *)

ClientError == 400..499

\* C15: POST goals with a body lacking title or target_amount is answered
\* with a 4xx status whose detail names the missing field, and inserts no goal
C15_Original ==
  (resp.kind = "create_goal"
     /\ (resp.request.title = ABSENT \/ resp.request.target_amount.t = "absent"))
    => /\ resp.code \in ClientError
       /\ \E i \in 1..Len(resp.detail) : resp.detail[i] \in {"title", "target_amount"}
       /\ Len(goals) = resp.rows_before

\* the ids of the user's goals that a successful DELETE has made inactive
DeletedIds == {goals[i].id : i \in {j \in 1..Len(goals) :
                 goals[j].user_id = resp.user_id /\ ~goals[j].is_active}}

ActiveGoals == SelectSeq(goals, LAMBDA g : g.user_id = resp.user_id /\ g.is_active)

\* C16: after a goal's DELETE has succeeded, no goal-forecast response for
\* the user holds a forecast for that goal id, and total_goals does not count it
C16_Original ==
  resp.kind = "goal_forecast" =>
    /\ \A i \in 1..Len(resp.body.forecasts) : resp.body.forecasts[i].goal_id \notin DeletedIds
    /\ (resp.goals_ok /\ resp.txns_ok) => resp.body.total_goals <= Len(ActiveGoals)

\* the goals of the user the last request was about
AskedGoals == RowsOf(goals, resp.user_id)

IsPlaceholderForecast(f) ==
  /\ f.goal_id = "fallback"
  /\ f.title = "Set Your First Goal"
  /\ f.status = "error"

\* a step of GET goal-forecast failed: the goals read, the transactions read
\* (made once goals were found) or the guidance call (made once both were)
ForecastStepFailed ==
  \/ ~resp.goals_ok
  \/ AskedGoals # <<>> /\ ~resp.txns_ok
  \/ AskedGoals # <<>> /\ AskedRows # <<>> /\ ~resp.guidance_ok

\* C17 as stated: when a store read or the guidance generation fails, the
\* request succeeds with exactly the one synthetic placeholder forecast
C17_Original ==
  (resp.kind = "goal_forecast" /\ ForecastStepFailed)
    => /\ resp.code = 200
       /\ Len(resp.body.forecasts) = 1
       /\ IsPlaceholderForecast(resp.body.forecasts[1])

\* C17: GET goal-forecast succeeds whatever fails.  A failed transactions
\* read gives exactly the one synthetic placeholder forecast; a failed goals
\* read gives the empty 'no goals' result; a failed guidance call leaves one
\* forecast per goal, each with a template guidance text
C17_FailurePaths ==
  resp.kind = "goal_forecast" =>
    /\ resp.code = 200
    /\ ~resp.goals_ok =>
         /\ resp.body.forecasts = <<>>
         /\ resp.body.total_goals = 0
         /\ "message" \in DOMAIN resp.body
    /\ (resp.goals_ok /\ AskedGoals # <<>> /\ ~resp.txns_ok) =>
         /\ Len(resp.body.forecasts) = 1
         /\ IsPlaceholderForecast(resp.body.forecasts[1])
         /\ resp.body.total_goals = 1
    /\ (/\ resp.goals_ok /\ resp.txns_ok /\ ~resp.guidance_ok
        /\ AskedGoals # <<>> /\ AskedRows # <<>>
        /\ \A i \in 1..Len(AskedRows) : AskedRows[i].amount.t \in {"num", "absent"}) =>
         /\ Len(resp.body.forecasts) = Len(AskedGoals)
         /\ \A i \in 1..Len(AskedGoals) :
              /\ resp.body.forecasts[i].goal_id = AskedGoals[i].id
              /\ resp.body.forecasts[i].status \in FourTiers
              /\ resp.body.forecasts[i].ai_guidance # ""

\* the transactions read fails under a user with two goals: one placeholder
C17_Witness ==
  /\ resp.kind = "goal_forecast"
  /\ resp.goals_ok /\ ~resp.txns_ok
  /\ Len(AskedGoals) = 2
  /\ Len(resp.body.forecasts) = 1

\* C18: GET goal-forecast always responds: a computation that does not
\* finish within the timeout, such as a store call that never returns, is
\* answered with the empty timed-out result, never with an error or a hang
C18_Original ==
  /\ resp.kind # "goal_forecast_unanswered"
  /\ (resp.kind = "goal_forecast" /\ "pace" \in DOMAIN resp /\ resp.pace # "in_time") =>
       /\ resp.code = 200
       /\ resp.body.forecasts = <<>>
       /\ resp.body.total_goals = 0
       /\ resp.body.message = "forecast analysis timed out"

----------------------------------------------------------------------------
(* Claims about POST transactions *)

\* the category the keyword guess gives each description of the model
ExpectedGuess(description) ==
  CASE description = "Whole Foods Market" -> "food"
    [] description = "Uber ride" -> "transportation"
    [] description = "Netflix" -> "entertainment"
    [] OTHER -> "other"

\* a sound request reached a working store
SoundPost ==
  /\ resp.kind = "add_transaction"
  /\ resp.store_ok
  /\ resp.request.amount.t = "num"
  /\ resp.request.description # ABSENT

FallbackAnswered ==
  /\ resp.code = 200
  /\ resp.transaction.ai_category = ExpectedGuess(resp.request.description)
  /\ DOMAIN resp.transaction.ai_insights = {"category", "insight", "tip"}

\* C19: when the text collaborator raises or returns output that is not a
\* JSON object holding category, insight and tip, POST transactions succeeds
\* and the returned transaction carries the keyword guess as ai_category and
\* the three keys in ai_insights
C19_Original ==
  (SoundPost /\ resp.collaborator # "object") => FallbackAnswered

\* the same for the outputs other than a JSON array or string that contains
\* the three key names
C19_OtherOutputs ==
  (SoundPost /\ resp.collaborator \notin {"object", "array_of_keys", "string_of_keys"})
    => FallbackAnswered

----------------------------------------------------------------------------
(* Claims about bad rows in an aggregate *)

\* the row is sound except, possibly, for a non-numeric amount or an
\* unparseable timestamp
SoundButForValues(r) ==
  /\ r.amount.t \in {"num", "text"}
  /\ r.transaction_type # NULL
  /\ r.description \notin {NULL, ABSENT}
  /\ r.created_at.form # "null"
  /\ \A t \in TimeFields(r) : t.form \in {"tz", "garbage", "absent"}
  /\ Truthy(r.ai_category) \/ Truthy(r.category) \/ r.merchant # NULL

StoreAnswered ==
  IF resp.kind = "goal_forecast" THEN resp.goals_ok /\ resp.txns_ok ELSE resp.store_ok

\* C20: a stored row with a non-numeric amount or an unparseable timestamp
\* does not fail an aggregate: insights, the dashboard and the savings
\* estimate are still computed over the user's rows
C20_Original ==
  (/\ resp.kind \in {"insights", "dashboard", "goal_forecast"}
   /\ StoreAnswered
   /\ \A i \in 1..Len(AskedRows) : SoundButForValues(AskedRows[i]))
    => CASE resp.kind = "insights" -> resp.body.analysis_period # "getting_started"
         [] resp.kind = "dashboard" -> resp.code = 200
         [] OTHER -> \A i \in 1..Len(resp.body.forecasts) :
                       resp.body.forecasts[i].goal_id # "fallback"

\* the same over rows whose amounts are all numbers: an unparseable timestamp
\* alone fails none of the three
C20_BadTimestampOnly ==
  (\A i \in 1..Len(txns) : txns[i].amount.t = "num") => C20_Original

----------------------------------------------------------------------------
(* POST /api/users, the sample generator and GET /api/users/{user_id}/transactions *)

\* the number of sample transactions create_user asks the generator for
\* (50 in the source, scaled down)
SeedCount == 2

\* categories.get(merchant, "other") of the generator
SeedCategory(merchant) ==
  CASE merchant = "Netflix" -> "entertainment"
    [] merchant = "Rent Payment" -> "housing"
    [] OTHER -> "other"

\* One draw of the generator: a merchant, an amount (the rent is larger) and
\* a date start_date + randint(0, 30) days, start_date being 30 days ago
SeedDraw(merchant, amount, age) == [merchant |-> merchant, amount |-> amount, age |-> age]

SeedDraws == {SeedDraw("Netflix", 15, 0), SeedDraw("Rent Payment", 800, Window)}

\* the Transaction the generator builds from a draw
SampleTransaction(user_id, d) ==
  [user_id |-> user_id, amount |-> d.amount,
   description |-> IF d.merchant = "Netflix" THEN "Purchase at Netflix"
                   ELSE "Purchase at Rent Payment",
   category |-> SeedCategory(d.merchant), ai_category |-> SeedCategory(d.merchant),
   date |-> Time("tz", d.age), merchant |-> d.merchant, transaction_type |-> "debit"]

SeedRow_OtherUser(id, t, ai_analysis) ==
  [id |-> id] @@
  [Row("nobody", Num(t.amount), "payment", ai_analysis.category, t.category,
       t.merchant, t.date)
     EXCEPT !.description = t.description, !.created_at = Time("tz", 0)]

\* the row create_user stores for a sample transaction after its analysis
SeedRow(id, t, ai_analysis) ==
  [id |-> id] @@
  [Row(t.user_id, Num(t.amount), "payment", ai_analysis.category, t.category,
       t.merchant, t.date)
     EXCEPT !.description = t.description, !.created_at = Time("tz", 0)]

\* The first sample whose analysis or insert raises, 0 when none does.
\* fail_at: the insert that the store rejects, 0 for none.
FirstFailure(ts, outs, fail_at) ==
  LET bad == {k \in 1..Len(ts) :
                \/ AnalyzeTransaction(ts[k].description, outs[k]).t # "dict"
                \/ k = fail_at}
  IN IF bad = {} THEN 0 ELSE CHOOSE k \in bad : \A j \in bad : k <= j

\* the rows the loop has stored when it ends or raises
SeededRows(ts, outs, stop) ==
  LET n == IF stop = 0 THEN Len(ts) ELSE stop - 1
  IN [k \in 1..n |->
        SeedRow(Len(txns) + k, ts[k], AnalyzeTransaction(ts[k].description, outs[k]))]

SeedOutputs == {"raise", "object", "array_of_keys"}

\* POST /api/users.  u: the id of the new user, the auth system's or, when
\* auth_ok is false, a random one; email: the request's email or ABSENT.
\* User(email=None) fails validation before anything is stored.
CreateUser(u, email, auth_ok, draws, outs, fail_at) ==
  LET ts == [k \in 1..SeedCount |-> SampleTransaction(u, draws[k])]
      stop == FirstFailure(ts, outs, fail_at)
  IN /\ RowsOf(txns, u) = <<>>
     /\ IF email = ABSENT
        THEN /\ resp' = [kind |-> "create_user", code |-> 500, auth_ok |-> auth_ok]
             /\ UNCHANGED txns
        ELSE /\ txns' = txns \o SeededRows(ts, outs, stop)
             /\ resp' = IF stop = 0
                        THEN [kind |-> "create_user", code |-> 200, auth_ok |-> auth_ok,
                              user |-> [id |-> u, email |-> email, name |-> "User"]]
                        ELSE [kind |-> "create_user", code |-> 500, auth_ok |-> auth_ok]
     /\ UNCHANGED goals

\* the id of a stored row; the Transaction model makes one up when it is missing
RowId(t) == IF "id" \in DOMAIN t THEN t.id ELSE "uuid"

\* GET /api/users/{user_id}/transactions
GetTransactions(u, store_ok) ==
  LET data == RowsOf(txns, u)
  IN /\ resp' = IF ~store_ok \/ \E i \in 1..Len(data) : ValidationFails(data[i])
                THEN [kind |-> "transactions", user_id |-> u, store_ok |-> store_ok,
                      code |-> 500]
                ELSE [kind |-> "transactions", user_id |-> u, store_ok |-> store_ok,
                      code |-> 200,
                      body |-> [i \in 1..Len(data) |->
                                  [id |-> RowId(data[i])] @@ AsTransaction(data[i])]]
     /\ UNCHANGED <<txns, goals>>

InitUsers ==
  /\ txns = <<>>
  /\ goals = <<>>
  /\ resp = NoResp

NextUsers ==
  \/ \E u \in Users, email \in {"a@example.org", ABSENT}, auth_ok \in BOOLEAN,
        draws \in [1..SeedCount -> SeedDraws], outs \in [1..SeedCount -> SeedOutputs],
        fail_at \in 0..SeedCount :
       CreateUser(u, email, auth_ok, draws, outs, fail_at)
  \/ \E u \in Users, store_ok \in BOOLEAN : GetTransactions(u, store_ok)

SpecUsers == InitUsers /\ [][NextUsers]_vars

----------------------------------------------------------------------------
(* Claims about POST users and GET transactions *)

\* the user has the full set of sample rows, which only a successful
\* POST users leaves behind
Seeded(rows, u) ==
  Cardinality({i \in 1..Len(rows) : rows[i].user_id = u /\ "id" \in DOMAIN rows[i]}) = SeedCount

TransactionFields == {"id", "user_id", "amount", "description", "date"}

\* a GET transactions answer for u: a non-empty list whose elements carry
\* the fields, a non-null value in each, and u as the user
ListsSeeds(r, u) ==
  /\ r.code = 200
  /\ r.body # <<>>
  /\ \A i \in 1..Len(r.body) :
       /\ TransactionFields \subseteq DOMAIN r.body[i]
       /\ r.body[i].user_id = u
       /\ r.body[i].description # NULL
       /\ TimeTruthy(r.body[i].date)

\* C21: once POST users has answered 200 with id u, the sample rows of u are
\* in the store and stay there, and every GET transactions for u that reads
\* the store returns a non-empty list whose elements each carry id, user_id = u,
\* amount, description and date.
C21_SeededThenListed ==
  [][/\ (resp'.kind = "create_user" /\ resp'.code = 200) => Seeded(txns', resp'.user.id)
     /\ \A u \in Users : Seeded(txns, u) => Seeded(txns', u)
     /\ \A u \in Users :
          (resp'.kind = "transactions" /\ resp'.user_id = u /\ resp'.store_ok
             /\ Seeded(txns', u))
          => ListsSeeds(resp', u)]_vars

C21_Witness ==
  /\ resp.kind = "transactions"
  /\ resp.store_ok
  /\ Seeded(txns, resp.user_id)
  /\ resp.code = 200
  /\ Len(resp.body) = SeedCount
  /\ \E i \in 1..Len(resp.body) : resp.body[i].ai_category = "shopping"

----------------------------------------------------------------------------
(* Reads at different times *)

\* the requests of a run are numbered in time order; the ages of stored
\* timestamps count back from the first request, so the current time of
\* request number now is Time("datetime_tz", 0 - now)
MaxClock == 2

\* parse_from_supabase takes the row's date from the clock: the field it
\* resolves is missing, null or does not parse
ClockDated(t) ==
  LET date0 == IF t.date.form # "absent" THEN t.date
               ELSE IF t.processed_at.form # "absent" THEN t.processed_at
               ELSE t.created_at
  IN ~TimeTruthy(date0) \/ date0.form = "garbage"

AsTransactionAt_Clock(t, now) ==
  [AsTransaction(t) EXCEPT !.date = Time("datetime_tz", 0 - now)]

\* the Transaction built from a stored row by request number now
AsTransactionAt(t, now) ==
  [AsTransaction(t) EXCEPT !.date = IF ClockDated(t) THEN Time("datetime_tz", 0 - now) ELSE @]

\* GET /api/users/{user_id}/transactions as request number now
GetTransactionsAt(u, store_ok, now) ==
  LET data == RowsOf(txns, u)
  IN /\ resp.kind = "transactions" => now > resp.at
     /\ resp' = IF ~store_ok \/ \E i \in 1..Len(data) : ValidationFails(data[i])
                THEN [kind |-> "transactions", user_id |-> u, store_ok |-> store_ok,
                      at |-> now, code |-> 500]
                ELSE [kind |-> "transactions", user_id |-> u, store_ok |-> store_ok,
                      at |-> now, code |-> 200,
                      body |-> [i \in 1..Len(data) |->
                                  [id |-> RowId(data[i])] @@ AsTransactionAt(data[i], now)]]
     /\ UNCHANGED <<txns, goals>>

\* the store holds rows of other writers, each under its id
InitReads ==
  /\ \E rows \in BoundedSeq(RecordShapes, MaxRecords) :
       txns = [i \in 1..Len(rows) |-> [id |-> i] @@ rows[i]]
  /\ goals = <<Goal("g1", "u1", 6, 0)>>
  /\ resp = NoResp

NextReads ==
  \/ \E ok \in BOOLEAN, now \in 0..MaxClock : GetTransactionsAt("u1", ok, now)
  \/ \E ok \in BOOLEAN : GetInsights("u1", ok)
  \/ \E ok \in BOOLEAN : GetDashboard("u1", ok)
  \/ \E goals_ok, txns_ok, guidance_ok \in BOOLEAN :
       GetGoalForecast("u1", goals_ok, txns_ok, guidance_ok)
  \/ \E body \in PostBodies, out \in CollaboratorOutputs, ok \in BOOLEAN :
       AddTransaction("u1", body, out, ok)

SpecReads == InitReads /\ [][NextReads]_vars

----------------------------------------------------------------------------
(* Claims about read requests *)

ReadKinds == {"transactions", "insights", "dashboard", "goal_forecast"}

\* this step and the one before it are answered GET transactions requests
\* of one user
TwoListings ==
  /\ resp.kind = "transactions"
  /\ resp'.kind = "transactions"
  /\ resp'.user_id = resp.user_id
  /\ resp.code = 200
  /\ resp'.code = 200

----------------------------------------------------------------------------
(* The subscription detector (spec section 4.4; its code is not among the  *)
(* backend's Python sources, so it is modelled from the specification)     *)

MaxCharges == 3

StabilityBand == Rat(1, 10)
MinCadence == 20
MaxCadence == 40

\* merchant key: the trimmed, lower-cased merchant if present, else the
\* description
MerchantKey(t) == IF Truthy(t.merchant) THEN Lower(t.merchant) ELSE Lower(t.description)

\* the members of a key's group, newest first
Group(ts, key) == SortByDateDesc(SelectSeq(ts, LAMBDA t : MerchantKey(t) = key))

RECURSIVE MaxAmount(_)
MaxAmount(g) ==
  IF Len(g) = 1 THEN g[1].amount
  ELSE LET m == MaxAmount(Tail(g)) IN IF g[1].amount > m THEN g[1].amount ELSE m

RECURSIVE MinAmount(_)
MinAmount(g) ==
  IF Len(g) = 1 THEN g[1].amount
  ELSE LET m == MinAmount(Tail(g)) IN IF g[1].amount < m THEN g[1].amount ELSE m

MeanAmount(g) == Rat(SumSeq([i \in 1..Len(g) |-> g[i].amount]), Len(g))

\* whole days between consecutive sorted timestamps
Intervals(g) == [i \in 1..(Len(g) - 1) |-> g[i + 1].date.age - g[i].date.age]

AvgIntervalDays(g) == Rat(SumSeq(Intervals(g)), Len(g) - 1)

\* (max(amount) - min(amount)) <= 0.1 * mean(amount)
AmountStable(g) ==
  RatLeq(RatOfInt(MaxAmount(g) - MinAmount(g)), RatMul(StabilityBand, MeanAmount(g)))

\* 20 <= avgIntervalDays <= 40
MonthlyCadence(g) ==
  /\ RatLeq(RatOfInt(MinCadence), AvgIntervalDays(g))
  /\ RatLeq(AvgIntervalDays(g), RatOfInt(MaxCadence))

Flagged_ThreeCharges(g) == Len(g) >= 3 /\ AmountStable(g) /\ MonthlyCadence(g)

\* a group is flagged: at least two members, stable amounts, monthly cadence
Flagged(g) == Len(g) >= 2 /\ AmountStable(g) /\ MonthlyCadence(g)

Subscription(key, g) ==
  [merchantKey |-> key, averageAmount |-> MeanAmount(g),
   avgIntervalDays |-> AvgIntervalDays(g), lastChargeDate |-> g[1].date,
   estimatedMonthlyTotal |-> MeanAmount(g)]

\* stable insertion into a list ordered by estimatedMonthlyTotal, largest first
RECURSIVE InsertByTotal(_, _)
InsertByTotal(sorted, s) ==
  IF sorted = <<>> THEN <<s>>
  ELSE IF RatLeq(s.estimatedMonthlyTotal, Head(sorted).estimatedMonthlyTotal)
    THEN <<Head(sorted)>> \o InsertByTotal(Tail(sorted), s)
  ELSE <<s>> \o sorted

RECURSIVE SubscriptionList(_, _)
SubscriptionList(ts, keys) ==
  IF keys = {} THEN <<>>
  ELSE LET key == CHOOSE k \in keys : TRUE
           rest == SubscriptionList(ts, keys \ {key})
       IN IF Flagged(Group(ts, key))
          THEN InsertByTotal(rest, Subscription(key, Group(ts, key)))
          ELSE rest

RECURSIVE RatSum(_)
RatSum(s) ==
  IF s = <<>> THEN RatOfInt(0)
  ELSE LET r == RatSum(Tail(s))
       IN <<Head(s)[1] * r[2] + r[1] * Head(s)[2], Head(s)[2] * r[2]>>

\* GET /users/{id}/subscriptions over the user's normalised transactions
DetectSubscriptions(u) ==
  LET ts == Transactions(RowsOf(txns, u))
      keys == {MerchantKey(ts[i]) : i \in 1..Len(ts)} \ {""}
      list == SubscriptionList(ts, keys)
  IN /\ resp' = [kind |-> "subscriptions", user_id |-> u, code |-> 200,
                 body |-> [subscriptions |-> list,
                           total |-> RatSum([i \in 1..Len(list) |->
                                               list[i].estimatedMonthlyTotal])]]
     /\ UNCHANGED <<txns, goals>>

\* charges of one merchant at several amounts and dates, and one charge of
\* another merchant
ChargeRows ==
  {Row("u1", Num(a), "payment", NULL, NULL, "Netflix", Time("tz", age)) :
     a \in {10, 50, 54, 90}, age \in {0, 30, 60, 75}}
  \cup {Row("u1", Num(50), "payment", NULL, NULL, "Uber", Time("tz", 30))}

InitSubscriptions ==
  /\ txns \in BoundedSeq(ChargeRows, MaxCharges)
  /\ goals = <<>>
  /\ resp = NoResp

NextSubscriptions == DetectSubscriptions("u1")

SpecSubscriptions == InitSubscriptions /\ [][NextSubscriptions]_vars

----------------------------------------------------------------------------
(* Claims about the subscription detector *)

\* the stored charges of a merchant: amounts and ages
ChargesOf(merchant) ==
  SelectSeq(txns, LAMBDA r : r.user_id = resp.user_id /\ r.merchant = merchant)

\* the claim's rule over the stored charges, without quotients: at least two
\* charges, ten times the spread at most the mean, the mean interval (span of
\* the dates over the number of intervals) between 20 and 40 days
RuleFlags(c) ==
  LET n == Len(c)
      amounts == {c[i].amount.v : i \in 1..n}
      ages == {c[i].processed_at.age : i \in 1..n}
      hi == CHOOSE a \in amounts : \A b \in amounts : b <= a
      lo == CHOOSE a \in amounts : \A b \in amounts : a <= b
      oldest == CHOOSE a \in ages : \A b \in ages : b <= a
      newest == CHOOSE a \in ages : \A b \in ages : a <= b
      total == SumSeq([i \in 1..n |-> c[i].amount.v])
  IN /\ n >= 2
     /\ 10 * (hi - lo) * n <= total
     /\ MinCadence * (n - 1) <= oldest - newest
     /\ oldest - newest <= MaxCadence * (n - 1)

ListedKeys == {resp.body.subscriptions[i].merchantKey : i \in 1..Len(resp.body.subscriptions)}

\* C23: a merchant's group is flagged iff it has at least 2 transactions,
\* max(amount) - min(amount) <= 0.1 * mean(amount) and the mean interval
\* between consecutive charges lies between 20 and 40 days; a flagged group's
\* estimatedMonthlyTotal is its mean amount.
C23_SubscriptionRule ==
  resp.kind = "subscriptions" =>
    \A merchant \in {"Netflix", "Uber"} :
      LET c == ChargesOf(merchant)
      IN /\ (Lower(merchant) \in ListedKeys) <=> (c # <<>> /\ RuleFlags(c))
         /\ \A i \in 1..Len(resp.body.subscriptions) :
              resp.body.subscriptions[i].merchantKey = Lower(merchant) =>
                resp.body.subscriptions[i].estimatedMonthlyTotal[1] * Len(c)
                  = SumSeq([k \in 1..Len(c) |-> c[k].amount.v])
                    * resp.body.subscriptions[i].estimatedMonthlyTotal[2]

\* three charges of 50 at 30-day intervals are flagged with 50
C23_Witness ==
  /\ resp.kind = "subscriptions"
  /\ Len(ChargesOf("Netflix")) = 3
  /\ \A i \in 1..3 : ChargesOf("Netflix")[i].amount.v = 50
  /\ {ChargesOf("Netflix")[i].processed_at.age : i \in 1..3} = {0, 30, 60}
  /\ \E i \in 1..Len(resp.body.subscriptions) :
       /\ resp.body.subscriptions[i].merchantKey = "netflix"
       /\ RatEq(resp.body.subscriptions[i].estimatedMonthlyTotal, RatOfInt(50))

\* charges of 10 and 90 thirty days apart, and a single charge, are not flagged
C23_Volatile ==
  (/\ resp.kind = "subscriptions"
   /\ Len(txns) = 3
   /\ {txns[i].amount.v : i \in 1..2} = {10, 90}
   /\ {txns[i].processed_at.age : i \in 1..2} = {0, 30}
   /\ txns[3].merchant = "Uber")
  => resp.body.subscriptions = <<>>

----------------------------------------------------------------------------
(* Claims about the effective category *)

\* the claim's chain over a stored row: ai_category if present, else
\* category, else the lower-cased merchant, else "other"
EffectiveCategory(r) ==
  IF Truthy(r.ai_category) THEN r.ai_category
  ELSE IF Truthy(r.category) THEN r.category
  ELSE IF Truthy(r.merchant) THEN Lower(r.merchant)
  ELSE "other"

\* the categories the chain gives the rows at the positions idx, after the
\* semantic normalisation
ChainCategories(rows, idx) == {NormalizeCategory(EffectiveCategory(rows[i])) : i \in idx}

ExpenseRows(rows) ==
  {i \in 1..Len(rows) : GetDefault(rows[i].transaction_type, "debit") \in ExpenseTypes}

\* the aggregation of GET insights produced insights from the user's rows
InsightsGenerated ==
  /\ InsightsAggregated
  /\ resp.body.insights # <<>>
  /\ resp.body.insights[1].category \notin {"general"}
  /\ AskedRows # <<>>

\* C24: in the insights aggregation and in the dashboard's category
\* breakdown alike, each expense-bearing transaction is grouped under
\* ai_category if present, else category, else the lower-cased merchant,
\* else "other" (compared after the semantic normalisation, so that a
\* difference in normalisation alone does not count)
C24_Original ==
  /\ InsightsGenerated =>
       {resp.body.insights[i].category : i \in 1..Len(resp.body.insights)}
         = ChainCategories(AskedRows, {i \in ExpenseRows(AskedRows) :
                                         AskedRows[i].amount.v > 0})
  /\ DashboardAnswered =>
       {NormalizeCategory(c) : c \in DOMAIN resp.body.category_spending}
         = ChainCategories(AskedRows, ExpenseRows(AskedRows))

\* the insights half alone: it holds
C24_InsightsChain ==
  InsightsGenerated =>
    {resp.body.insights[i].category : i \in 1..Len(resp.body.insights)}
      = ChainCategories(AskedRows, {i \in ExpenseRows(AskedRows) :
                                      AskedRows[i].amount.v > 0})

----------------------------------------------------------------------------
(* Claims about the timestamp of a stored row *)

\* the claim's order over a stored row: the date field if the row has one,
\* else processed_at, else created_at; ABSENT when the row has none
ClaimedTime(r) ==
  IF r.date.form # "absent" THEN r.date
  ELSE IF r.processed_at.form # "absent" THEN r.processed_at
  ELSE r.created_at

\* the claimed timestamp lies in the trailing 30 days; a row without a usable
\* one is dated by the request
ClaimedInWindow(r) ==
  IF TimeTruthy(ClaimedTime(r)) /\ ClaimedTime(r).form # "garbage"
  THEN ClaimedTime(r).age <= Window
  ELSE TRUE

\* every timestamp the row carries is an ISO date-time with an offset
OffsetTimesOnly(r) == \A t \in TimeFields(r) : t.form \in {"tz", "null", "absent"}

\* the savings estimate was computed from the user's rows
EstimateComputed ==
  /\ resp.kind = "goal_forecast"
  /\ resp.body.forecasts # <<>>
  /\ resp.body.forecasts[1].status \notin {"no_data", "error"}

\* parse_from_supabase follows the claimed order
C25_ParsePath ==
  resp.kind = "parse_from_supabase" =>
    resp.once.date = IF TimeTruthy(ClaimedTime(resp.row))
                     THEN ParseTime(ClaimedTime(resp.row))
                     ELSE Time("datetime_tz", 0)

\* dccx follows the claimed order
C25_DccxPath ==
  resp.kind = "dccx" =>
    resp.once.date = IF TimeTruthy(ClaimedTime(resp.row))
                     THEN DccxTime(ClaimedTime(resp.row))
                     ELSE Time("datetime_tz", 0)

\* the savings estimate of GET goal-forecast follows the claimed order
C25_ForecastPath ==
  (EstimateComputed /\ \A i \in 1..Len(AskedRows) : OffsetTimesOnly(AskedRows[i]))
    => resp.body.monthly_savings_estimate
         = MonthlySavings(Expenses(SelectSeq(AskedRows, ClaimedInWindow)))

\* C25: a stored row's timestamp is the date field if present, else
\* processed_at, else created_at, else the current time, in every code path
\* that reads a row's time: parse_from_supabase, dccx and the savings estimate
C25_Original == C25_ParsePath /\ C25_DccxPath /\ C25_ForecastPath

\* the savings estimate over rows that all carry a timestamp: the order of
\* the fields alone
C25_ForecastOrder ==
  (EstimateComputed
     /\ \A i \in 1..Len(AskedRows) : \E t \in TimeFields(AskedRows[i]) : t.form = "tz")
    => C25_ForecastPath

----------------------------------------------------------------------------
(* Claims about the guidance templates *)

\* the dollar figures a guidance text contains, by the expression that
\* computes each
TemplateFigures(text) ==
  CASE text = "fallback:on_track" -> {"monthly_savings * 0.1"}
    [] text = "fallback:off_track" -> {"remaining / 12 - monthly_savings"}
    [] text = "fallback:no_savings" -> {"target_amount / 12"}
    [] text = "hf:on_track" -> {"monthly_savings", "target_amount"}
    [] text = "hf:off_track" -> {"target_amount", "remaining / 12"}
    [] text = "hf:no_savings" -> {"target_amount / 12", "target_amount"}
    [] text = "hf:track_your_spending" -> {"target_amount"}
    [] text = "inline:track_your_spending" -> {"target_amount"}
    [] OTHER -> {}

\* the texts are pairwise different over the four statuses
DistinctOver(template(_)) ==
  \A s1, s2 \in FourTiers : s1 # s2 => template(s1) # template(s2)

\* the forecaster's template for a status, when the collaborator raises
ForecasterTemplate(status) == ForecastGuidance(status, "raise")

\* a forecaster call whose collaborator raised or returned no text
ForecasterCallFailed == IsForecasterCall /\ resp.ai \in {"raise", "empty"}

\* C26: when the collaborator fails or gives unusable output, ai_guidance is
\* the template of the forecast's status, the templates of the four
\* statuses are pairwise different, and the text contains a dollar figure
\* computed from the goal's amounts, in the forecaster and in the endpoint
C26_Original ==
  /\ DistinctOver(ForecasterTemplate)
  /\ DistinctOver(FallbackGuidance)
  /\ ForecasterCallFailed =>
       /\ resp.result.ai_guidance = ForecasterTemplate(resp.result.status)
       /\ TemplateFigures(resp.result.ai_guidance) # {}
  /\ \A f \in ComputedForecasts :
       /\ f.ai_guidance = FallbackGuidance(f.status)
       /\ TemplateFigures(f.ai_guidance) # {}

\* the endpoint's guidance when the guidance call returns: it holds there
C26_EndpointTemplates ==
  /\ DistinctOver(FallbackGuidance)
  /\ \A f \in ComputedForecasts :
       resp.guidance_ok =>
         /\ f.ai_guidance = FallbackGuidance(f.status)
         /\ TemplateFigures(f.ai_guidance) # {}

\* the forecaster with a raising collaborator and a status other than
\* moderate_track: it holds there
C26_ForecasterThreeTemplates ==
  (IsForecasterCall /\ resp.ai = "raise" /\ resp.result.status # "moderate_track") =>
    /\ resp.result.ai_guidance = ForecasterTemplate(resp.result.status)
    /\ TemplateFigures(resp.result.ai_guidance) # {}

----------------------------------------------------------------------------
(* Claims about the savings estimate *)

\* the timestamp the estimate reads lies in the trailing 30 days, in
\* whatever form it is stored
InWindowAnyForm(r) ==
  /\ DateField(r).form \in {"tz", "naive", "date"}
  /\ DateField(r).age <= Window

\* the amounts of the expense-bearing rows among rows
ExpenseSum(rows) ==
  SumSeq([i \in 1..Len(rows) |->
            IF Get(rows[i].transaction_type) \in ExpenseTypes THEN rows[i].amount.v ELSE 0])

\* max(income - expenses, 0) with income 1.3 * expenses, or 3000 when there
\* are no expenses, as a fraction over 10
ClaimedSavings(expenses) ==
  IF expenses > 0 THEN Rat(Max0(13 * expenses - 10 * expenses), 10)
  ELSE Rat(10 * DefaultIncome, 10)

NumericRows == \A i \in 1..Len(AskedRows) : AskedRows[i].amount.t = "num"

\* C27: the monthly savings estimate is max(income - expenses, 0), expenses
\* being the sum of the amounts of the expense-bearing transactions whose
\* timestamp lies in the trailing 30 days, whatever its stored form, and
\* income 1.3 * expenses when expenses > 0 and 3000 otherwise
C27_Original ==
  (EstimateComputed /\ NumericRows) =>
    RatEq(resp.body.monthly_savings_estimate,
          ClaimedSavings(ExpenseSum(SelectSeq(AskedRows, InWindowAnyForm))))

\* the same over rows whose timestamp carries a UTC offset: it holds
C27_OffsetTimestamps ==
  (EstimateComputed /\ NumericRows
     /\ \A i \in 1..Len(AskedRows) : DateField(AskedRows[i]).form \notin {"naive", "date"})
    => RatEq(resp.body.monthly_savings_estimate,
             ClaimedSavings(ExpenseSum(SelectSeq(AskedRows, InWindowAnyForm))))

\* C28: in every goal-forecast response computed from a non-empty
\* transaction list the monthly savings estimate is strictly positive, no
\* forecast has status no_savings and no months_needed is null
C28_PositiveEstimate ==
  EstimateComputed =>
    /\ RatLt(RatOfInt(0), resp.body.monthly_savings_estimate)
    /\ \A i \in 1..Len(resp.body.forecasts) :
         /\ resp.body.forecasts[i].status # "no_savings"
         /\ resp.body.forecasts[i].months_needed.null = FALSE

\* an estimate below one currency unit (three tenths of one expense) behind
\* an off_track forecast
C28_Witness ==
  /\ EstimateComputed
  /\ RatLt(resp.body.monthly_savings_estimate, RatOfInt(1))
  /\ \E i \in 1..Len(resp.body.forecasts) : resp.body.forecasts[i].status = "off_track"

----------------------------------------------------------------------------
(* POST transactions followed by reads *)

InitLedger ==
  /\ txns = <<>>
  /\ goals = <<>>
  /\ resp = NoResp

NextLedger ==
  \/ \E u \in Users, body \in PostBodies, out \in {"raise", "object"}, ok \in BOOLEAN :
       AddTransaction(u, body, out, ok)
  \/ \E u \in Users, ok \in BOOLEAN : GetTransactions(u, ok)
  \/ \E u \in Users, ok \in BOOLEAN : GetDashboard(u, ok)

SpecLedger == InitLedger /\ [][NextLedger]_vars

----------------------------------------------------------------------------
(* Claims about the transaction type *)

\* the transaction_type the POST that stored a row gave; the request bodies
\* differ in their descriptions
PostedType(description) ==
  LET body == CHOOSE b \in PostBodies : b.description = description
  IN GetDefault(body.transaction_type, "debit")

\* the amounts of the rows posted with a type in types
PostedSum(rows, types) ==
  SumSeq([i \in 1..Len(rows) |->
            IF PostedType(rows[i].description) \in types THEN rows[i].amount.v ELSE 0])

\* C29: a transaction is returned by GET transactions with the
\* transaction_type its POST gave, and one posted as credit or deposit is
\* counted in the dashboard's total_income and not in total_spent
C29_Original ==
  /\ (resp.kind = "transactions" /\ resp.code = 200) =>
       \A i \in 1..Len(resp.body) :
         resp.body[i].transaction_type = PostedType(resp.body[i].description)
  /\ DashboardAnswered =>
       /\ resp.body.summary.total_income = PostedSum(AskedRows, IncomeTypes)
       /\ resp.body.summary.total_spent = PostedSum(AskedRows, ExpenseTypes)

\* the same for transactions posted as debit or without a type: the amounts
\* are in total_spent, while the type returned is "payment"
C29_DebitsCounted ==
  (DashboardAnswered
     /\ \A i \in 1..Len(AskedRows) : PostedType(AskedRows[i].description) = "debit")
    => /\ resp.body.summary.total_income = 0
       /\ resp.body.summary.total_spent = PostedSum(AskedRows, ExpenseTypes)

----------------------------------------------------------------------------
(* PUT /api/users/{user_id}/goals/{goal_id} *)

\* the fields a PUT body sets
GoalUpdates == {[field |-> "current_amount", value |-> 1]}

ApplyUpdate(g, goal_data) ==
  IF goal_data.field = "current_amount" THEN [g EXCEPT !.current_amount = goal_data.value]
  ELSE [g EXCEPT !.target_amount = goal_data.value]

\* the detail of the 500 update_goal raises: the 404 raised inside the try
\* is caught by the except clause
UpdateGoalDetail(store_ok) ==
  IF store_ok THEN <<"Error updating goal", "404", "Goal not found">>
  ELSE <<"Error updating goal", "store error">>

UpdateGoal(u, goal_id, goal_data, store_ok) ==
  /\ IF store_ok /\ \E i \in 1..Len(goals) : MatchesGoal(goals[i], u, goal_id)
     THEN /\ goals' = [i \in 1..Len(goals) |->
                         IF MatchesGoal(goals[i], u, goal_id)
                         THEN ApplyUpdate(goals[i], goal_data)
                         ELSE goals[i]]
          /\ resp' = [kind |-> "update_goal", user_id |-> u, goal_id |-> goal_id,
                      store_ok |-> store_ok, code |-> 200,
                      message |-> "Goal updated successfully",
                      goal |-> ApplyUpdate(
                                 goals[CHOOSE i \in 1..Len(goals) :
                                         MatchesGoal(goals[i], u, goal_id)],
                                 goal_data)]
     ELSE /\ resp' = [kind |-> "update_goal", user_id |-> u, goal_id |-> goal_id,
                      store_ok |-> store_ok, code |-> 500,
                      detail |-> UpdateGoalDetail(store_ok)]
          /\ UNCHANGED goals
  /\ UNCHANGED txns

NextGoalWrites ==
  \/ \E u \in Users, body \in GoalBodies, ok \in BOOLEAN : CreateGoal(u, body, ok)
  \/ \E u \in Users, goal_id \in GoalIds, ok \in BOOLEAN : DeleteGoal(u, goal_id, ok)
  \/ \E u \in Users, goal_id \in GoalIds, goal_data \in GoalUpdates, ok \in BOOLEAN :
       UpdateGoal(u, goal_id, goal_data, ok)

InitGoalWrites ==
  /\ txns = <<>>
  /\ goals = <<>>
  /\ resp = NoResp

SpecGoalWrites == InitGoalWrites /\ [][NextGoalWrites]_vars

----------------------------------------------------------------------------
(* Claims about PUT and DELETE on an unknown goal *)

\* C30: a PUT or DELETE on a goal id that matches no goal of that user is
\* answered with status 404 "Goal not found" and changes no goal row
C30_Original ==
  [][(/\ resp'.kind \in {"update_goal", "delete_goal"}
      /\ resp'.code # 200
      /\ "store error" \notin {resp'.detail[i] : i \in 1..Len(resp'.detail)}
      /\ ~\E i \in 1..Len(goals) : MatchesGoal(goals[i], resp'.user_id, resp'.goal_id))
     => (resp'.code = 404 /\ goals' = goals)]_vars

\* what does hold: the request is refused with a detail that carries the
\* 404 text, and no goal row changes
C30_RefusedUnchanged ==
  [][(/\ resp'.kind \in {"update_goal", "delete_goal"}
      /\ ~\E i \in 1..Len(goals) : MatchesGoal(goals[i], resp'.user_id, resp'.goal_id))
     => (resp'.code = 500 /\ goals' = goals)]_vars

====
